---- MODULE Spec2Model ----
(***************************************************************************)
(* Structural inference pipeline of the presentation design system:        *)
(* TextSplitter (extraction/text_splitter.py) and ContentAnalyzer          *)
(* (extraction/content_analyzer.py).                                       *)
(*                                                                         *)
(* Python strings are TLA+ strings; a character is a string of length 1.   *)
(* The model's alphabet is ASCII.  The bullet glyph U+2022 cannot be       *)
(* written in a TLA+ string literal and is represented by the character    *)
(* "@", which occurs nowhere else in the alphabet.                         *)
(***************************************************************************)
EXTENDS Integers, Sequences, FiniteSets, TLC

(***************************************************************************)
(* Bounds of the model.                                                    *)
(***************************************************************************)
MaxLines == 3
MaxSlideIndex == 1

(***************************************************************************)
(* Character classes (str.isspace, \s, \d, str.isupper, str.islower).      *)
(***************************************************************************)
None == "<None>"

BULLET == "@"

Whitespace == {" ", "\t", "\n"}

Digits == {"0", "1", "2", "3", "4", "5", "6", "7", "8", "9"}

UpperLetters ==
    {"A", "B", "C", "D", "E", "F", "G", "H", "I", "J", "K", "L", "M",
     "N", "O", "P", "Q", "R", "S", "T", "U", "V", "W", "X", "Y", "Z"}

LowerLetters ==
    {"a", "b", "c", "d", "e", "f", "g", "h", "i", "j", "k", "l", "m",
     "n", "o", "p", "q", "r", "s", "t", "u", "v", "w", "x", "y", "z"}

NumberSeparators == {".", ")", ":"}

BulletGlyphs == {BULLET, "-", "*"}

Ch(s, k) == SubSeq(s, k, k)

(***************************************************************************)
(* Character scans.  ScanUp is the first position k in lo..hi with         *)
(* (s[k] \in class) = member, or hi + 1; ScanDown the last one, or lo - 1.  *)
(* Both halve the range so that long lines do not nest deeply.             *)
(***************************************************************************)
RECURSIVE ScanUp(_, _, _, _, _)
ScanUp(s, lo, hi, class, member) ==
    IF lo > hi THEN hi + 1
    ELSE IF lo = hi THEN (IF (Ch(s, lo) \in class) = member THEN lo ELSE hi + 1)
    ELSE LET mid == (lo + hi) \div 2
             left == ScanUp(s, lo, mid, class, member)
         IN IF left <= mid THEN left ELSE ScanUp(s, mid + 1, hi, class, member)

RECURSIVE ScanDown(_, _, _, _, _)
ScanDown(s, lo, hi, class, member) ==
    IF lo > hi THEN lo - 1
    ELSE IF lo = hi THEN (IF (Ch(s, lo) \in class) = member THEN lo ELSE lo - 1)
    ELSE LET mid == (lo + hi) \div 2
             right == ScanDown(s, mid + 1, hi, class, member)
         IN IF right > mid THEN right ELSE ScanDown(s, lo, mid, class, member)

(***************************************************************************)
(* str.strip(): drop leading and trailing whitespace.                      *)
(***************************************************************************)
FirstNonSpace(s, k) == ScanUp(s, k, Len(s), Whitespace, FALSE)

LastNonSpace(s, k) == ScanDown(s, 1, k, Whitespace, FALSE)

strip(s) == SubSeq(s, FirstNonSpace(s, 1), LastNonSpace(s, Len(s)))

(***************************************************************************)
(* str.split('\n'): the pieces between newline characters; never empty.    *)
(***************************************************************************)
NextNewline(s, k) == ScanUp(s, k, Len(s), {"\n"}, TRUE)

RECURSIVE split_newline(_)
split_newline(s) ==
    LET n == NextNewline(s, 1) IN
    IF n > Len(s) THEN <<s>>
    ELSE <<SubSeq(s, 1, n - 1)>> \o split_newline(SubSeq(s, n + 1, Len(s)))

(***************************************************************************)
(* str.split(): the maximal runs of non-whitespace characters.             *)
(***************************************************************************)
FirstSpace(s, k) == ScanUp(s, k, Len(s), Whitespace, TRUE)

RECURSIVE split_words(_)
split_words(s) ==
    LET b == FirstNonSpace(s, 1) IN
    IF b > Len(s) THEN << >>
    ELSE LET e == FirstSpace(s, b) IN
         <<SubSeq(s, b, e - 1)>> \o split_words(SubSeq(s, e, Len(s)))

(***************************************************************************)
(* '\n'.join(parts)                                                        *)
(***************************************************************************)
RECURSIVE join_newline(_)
join_newline(parts) ==
    IF parts = << >> THEN ""
    ELSE IF Len(parts) = 1 THEN parts[1]
    ELSE parts[1] \o "\n" \o join_newline(Tail(parts))

endswith_colon(s) == Len(s) > 0 /\ Ch(s, Len(s)) = ":"

(***************************************************************************)
(* str.isupper(): at least one cased character and no lowercase one.       *)
(***************************************************************************)
isupper(s) ==
    /\ \E k \in 1..Len(s) : Ch(s, k) \in UpperLetters
    /\ \A k \in 1..Len(s) : Ch(s, k) \notin LowerLetters

(***************************************************************************)
(* str(n) for the small non-negative numbers used as list numerals.        *)
(***************************************************************************)
DigitStr(d) ==
    CASE d = 0 -> "0" [] d = 1 -> "1" [] d = 2 -> "2" [] d = 3 -> "3"
      [] d = 4 -> "4" [] d = 5 -> "5" [] d = 6 -> "6" [] d = 7 -> "7"
      [] d = 8 -> "8" [] d = 9 -> "9"

RECURSIVE IntStr(_)
IntStr(n) == IF n < 10 THEN DigitStr(n) ELSE IntStr(n \div 10) \o DigitStr(n % 10)

(***************************************************************************)
(* The two list-marker patterns, matched at position p of s:               *)
(*   numbered  \s*(\d+)[.):]\s+(.+)      bulleted  \s*[•\-\*–—]\s+(.+)     *)
(* \s also matches a newline, '.' does not.  MarkerEnd is the position of  *)
(* the last character of the marker (0 when the marker does not match),    *)
(* PrefixEnd the position after the greedy \s+ (0 when the pattern without *)
(* its (.+) group does not match).                                         *)
(***************************************************************************)
FirstNonDigit(s, k) == ScanUp(s, k, Len(s), Digits, FALSE)

MarkerEnd(s, p, list_type) ==
    LET a == FirstNonSpace(s, p) IN
    IF list_type = "numbered_list"
    THEN LET d == FirstNonDigit(s, a) IN
         IF d > a /\ d <= Len(s) /\ Ch(s, d) \in NumberSeparators THEN d ELSE 0
    ELSE IF a <= Len(s) /\ Ch(s, a) \in BulletGlyphs THEN a ELSE 0

PrefixEnd(s, p, list_type) ==
    LET m == MarkerEnd(s, p, list_type) IN
    IF m = 0 THEN 0
    ELSE LET w == FirstNonSpace(s, m + 1) IN
         IF w > m + 1 THEN w ELSE 0

(***************************************************************************)
(* The (.+) group of a pattern matched at p: [ok, first, last].  When the  *)
(* whitespace after the marker runs to the end of s the greedy \s+ gives   *)
(* back characters until (.+) can take one that is not a newline.          *)
(***************************************************************************)
LastNonNewline(s, k, low) ==
    LET j == ScanDown(s, low, k, {"\n"}, FALSE) IN IF j < low THEN 0 ELSE j

MatchGroup(s, p, list_type) ==
    LET w == PrefixEnd(s, p, list_type) IN
    IF w = 0 THEN [ok |-> FALSE, first |-> 0, last |-> 0]
    ELSE IF w <= Len(s)
         THEN [ok |-> TRUE, first |-> w, last |-> NextNewline(s, w) - 1]
         ELSE LET j == LastNonNewline(s, Len(s), MarkerEnd(s, p, list_type) + 2) IN
              IF j = 0 THEN [ok |-> FALSE, first |-> 0, last |-> 0]
              ELSE [ok |-> TRUE, first |-> j, last |-> j]

(***************************************************************************)
(* re.match(pattern, line): the pattern anchored at the start of the line. *)
(***************************************************************************)
NUMBERED_PREFIX(line) == PrefixEnd(line, 1, "numbered_list") > 0

BULLET_PREFIX(line) == PrefixEnd(line, 1, "bullet_list") > 0

(***************************************************************************)
(* pattern.finditer(text) under re.MULTILINE: the groups of the            *)
(* non-overlapping matches, leftmost first; ^ matches at the start of the  *)
(* text and after every newline, so a failed attempt resumes at the next   *)
(* line start.                                                             *)
(***************************************************************************)
AtLineStart(s, p) == p = 1 \/ Ch(s, p - 1) = "\n"

RECURSIVE finditer(_, _, _)
MatchesFrom(s, pos, list_type, g) ==
    IF AtLineStart(s, pos) /\ g.ok
    THEN <<SubSeq(s, g.first, g.last)>> \o finditer(s, g.last + 1, list_type)
    ELSE finditer(s, NextNewline(s, pos) + 1, list_type)

finditer(s, pos, list_type) ==
    IF pos > Len(s) THEN << >>
    ELSE MatchesFrom(s, pos, list_type, MatchGroup(s, pos, list_type))

(***************************************************************************)
(* Line Classifier (TextSplitter._count_words, _is_list_item, _is_heading) *)
(***************************************************************************)
_count_words(text) == Len(split_words(strip(text)))

_is_list_item(line) == NUMBERED_PREFIX(line) \/ BULLET_PREFIX(line)

Capitalized(words) == Cardinality({k \in 1..Len(words) : Ch(words[k], 1) \in UpperLetters})

_is_heading(line) ==
    IF Len(line) > 80 THEN FALSE
    ELSE IF isupper(line) /\ Len(line) > 3 THEN TRUE
    ELSE IF endswith_colon(line) THEN TRUE
    ELSE LET words == split_words(line) IN
         /\ Len(words) > 0
         /\ 10 * Capitalized(words) >= 7 * Len(words)
         /\ Len(line) < 60

(***************************************************************************)
(* Canonical list rendering: "{idx+1}. {item}" or "• {item}" per line.     *)
(***************************************************************************)
NumberedLine_ZeroBased(idx, item) == IntStr(idx) \o ". " \o item

NumberedLine(idx, item) == IntStr(idx + 1) \o ". " \o item

BulletLine(item) == BULLET \o " " \o item

RenderList(items, list_type) ==
    join_newline([k \in 1..Len(items) |->
        IF list_type = "numbered_list" THEN NumberedLine(k - 1, items[k])
        ELSE BulletLine(items[k])])

(***************************************************************************)
(* List Extractor (TextSplitter._extract_list).  Cursors and line_index    *)
(* are 0-based as in the source; lines[i] of the source is lines[i + 1].   *)
(***************************************************************************)
ListType(first_line) ==
    IF NUMBERED_PREFIX(first_line) THEN "numbered_list" ELSE "bullet_list"

RECURSIVE ListRunEnd(_, _)
ListRunEnd(lines, i) ==
    IF i < Len(lines) /\ _is_list_item(lines[i + 1]) THEN ListRunEnd(lines, i + 1) ELSE i

ItemsOfLine(line, list_type) ==
    LET match == MatchGroup(line, 1, list_type) IN
    IF match.ok THEN <<SubSeq(line, match.first, match.last)>> ELSE << >>

RECURSIVE CollectItems(_, _, _, _)
CollectItems(lines, i, end, list_type) ==
    IF i >= end THEN << >>
    ELSE ItemsOfLine(lines[i + 1], list_type) \o CollectItems(lines, i + 1, end, list_type)

NoComponent == [role |-> None]

_extract_list(lines, start_idx) ==
    IF ~_is_list_item(lines[start_idx + 1])
    THEN [result |-> NoComponent, consumed |-> 0]
    ELSE LET list_type == ListType(lines[start_idx + 1])
             end == ListRunEnd(lines, start_idx)
             items == CollectItems(lines, start_idx, end, list_type)
         IN [result |-> [role |-> "BODY",
                         content |-> RenderList(items, list_type),
                         content_type |-> list_type,
                         is_list |-> TRUE,
                         items |-> items,
                         line_index |-> start_idx],
             consumed |-> end - start_idx]

(***************************************************************************)
(* Text Splitter (TextSplitter.split_slide_text): the pieces of the head   *)
(* of the function, up to the call of the formatting loop.                 *)
(***************************************************************************)
RECURSIVE NonEmptyStripped(_)
NonEmptyStripped(raw) ==
    IF raw = << >> THEN << >>
    ELSE (IF strip(Head(raw)) # "" THEN <<strip(Head(raw))>> ELSE << >>)
         \o NonEmptyStripped(Tail(raw))

SplitLines(text) == NonEmptyStripped(split_newline(text))

IsEmptyText(text) == text = None \/ text = "" \/ strip(text) = ""

IsTitleLine_SevenWords(first_line) == _count_words(first_line) <= 7

IsTitleLine(first_line) == _count_words(first_line) <= 6

IsSubtitleLine_AnySlide(lines, slide_idx) ==
    /\ Len(lines) > 1
    /\ Len(lines[2]) < 150
    /\ _count_words(lines[2]) <= 6

IsSubtitleLine(lines, slide_idx) ==
    /\ slide_idx = 0
    /\ Len(lines) > 1
    /\ Len(lines[2]) < 150
    /\ _count_words(lines[2]) <= 6

TitleComponent(first_line) ==
    [role |-> "TITLE", content |-> first_line, line_index |-> 0]

SubtitleComponent(second_line) ==
    [role |-> "SUBTITLE", content |-> second_line, line_index |-> 1]

TitleComponents(lines, slide_idx) ==
    IF Len(lines) > 0 /\ IsTitleLine(lines[1])
    THEN <<TitleComponent(lines[1])>>
         \o (IF IsSubtitleLine(lines, slide_idx)
             THEN <<SubtitleComponent(lines[2])>> ELSE << >>)
    ELSE << >>

HasRemaining_SkipsLast(i, lines) == i + 1 < Len(lines)

HasRemaining(i, lines) == i < Len(lines)

(***************************************************************************)
(* One iteration of the loop of TextSplitter._format_text_with_lists at    *)
(* cursor i: the components it appends and the cursor it leaves.           *)
(***************************************************************************)
RECURSIVE ColonItemsEnd_StopAtHeading(_, _)
ColonItemsEnd_StopAtHeading(lines, i) ==
    IF /\ i < Len(lines)
       /\ lines[i + 1] # ""
       /\ ~_is_heading(lines[i + 1])
       /\ ~_is_list_item(lines[i + 1])
    THEN ColonItemsEnd_StopAtHeading(lines, i + 1)
    ELSE i

RECURSIVE ColonItemsEnd_TakeListItems(_, _)
ColonItemsEnd_TakeListItems(lines, i) ==
    IF /\ i < Len(lines)
       /\ lines[i + 1] # ""
       /\ ~endswith_colon(lines[i + 1])
    THEN ColonItemsEnd_TakeListItems(lines, i + 1)
    ELSE i

RECURSIVE ColonItemsEnd(_, _)
ColonItemsEnd(lines, i) ==
    IF /\ i < Len(lines)
       /\ lines[i + 1] # ""
       /\ ~endswith_colon(lines[i + 1])
       /\ ~_is_list_item(lines[i + 1])
    THEN ColonItemsEnd(lines, i + 1)
    ELSE i

ColonHeading(line, i) ==
    [role |-> "HEADING", content |-> line, line_index |-> i, make_bold |-> TRUE]

ColonList_Numbered(list_items, i) ==
    [role |-> "BODY",
     content |-> join_newline([k \in 1..Len(list_items) |-> NumberedLine(k - 1, list_items[k])]),
     content_type |-> "bullet_list",
     is_list |-> TRUE,
     items |-> list_items,
     line_index |-> i - Len(list_items)]

ColonList(list_items, i) ==
    [role |-> "BODY",
     content |-> join_newline([k \in 1..Len(list_items) |-> BulletLine(list_items[k])]),
     content_type |-> "bullet_list",
     is_list |-> TRUE,
     items |-> list_items,
     line_index |-> i - Len(list_items)]

ColonBranch(lines, i) ==
    LET end == ColonItemsEnd(lines, i + 1)
        list_items == SubSeq(lines, i + 2, end)
    IN [emitted |-> <<ColonHeading(lines[i + 1], i)>>
                    \o (IF list_items # << >> THEN <<ColonList(list_items, end)>> ELSE << >>),
        cursor |-> end]

ListBranch_HeadingFirst(lines, i) ==
    IF _is_heading(lines[i + 1])
    THEN [emitted |-> <<[role |-> "HEADING", content |-> lines[i + 1], line_index |-> i]>>,
          cursor |-> i + 1]
    ELSE LET call == _extract_list(lines, i) IN
         [emitted |-> <<call.result>>, cursor |-> i + call.consumed]

ListBranch(lines, i) ==
    LET call == _extract_list(lines, i) IN
    [emitted |-> <<call.result>>, cursor |-> i + call.consumed]

PlainHeading_AsTitle(line, i) ==
    [role |-> "TITLE", content |-> line, line_index |-> i]

PlainHeading(line, i) ==
    [role |-> "HEADING", content |-> line, line_index |-> i]

HeadingBranch_NoAdvance(lines, i) ==
    [emitted |-> <<PlainHeading(lines[i + 1], i)>>, cursor |-> i]

HeadingBranch(lines, i) ==
    [emitted |-> <<PlainHeading(lines[i + 1], i)>>, cursor |-> i + 1]

StopsParagraph(next_line) ==
    \/ endswith_colon(next_line)
    \/ _is_heading(next_line)
    \/ _is_list_item(next_line)

RECURSIVE ParagraphEnd(_, _)
ParagraphEnd(lines, i) ==
    IF i < Len(lines) /\ ~StopsParagraph(lines[i + 1])
    THEN ParagraphEnd(lines, i + 1)
    ELSE i

Paragraph(paragraph_lines, i) ==
    [role |-> "BODY",
     content |-> join_newline(paragraph_lines),
     line_index |-> i - Len(paragraph_lines)]

ParagraphBranch(lines, i) ==
    LET end == ParagraphEnd(lines, i + 1) IN
    [emitted |-> <<Paragraph(SubSeq(lines, i + 1, end), end)>>, cursor |-> end]

(***************************************************************************)
(* Content Analyzer (ContentAnalyzer.analyze_text_structure)               *)
(***************************************************************************)
StripAll(groups) == [k \in 1..Len(groups) |-> strip(groups[k])]

ALL_CAPS_PATTERN(s) ==
    /\ Len(s) > 0
    /\ \A k \in 1..Len(s) : Ch(s, k) \notin (LowerLetters \cup {"_"})

_is_title_case(text) ==
    LET words == split_words(text) IN
    /\ Len(words) > 0
    /\ 2 * Capitalized(words) >= Len(words)

ContentType_OneMatch(numbered_matches, bullet_matches) ==
    IF Len(numbered_matches) >= 1 THEN "numbered_list"
    ELSE IF Len(bullet_matches) >= 1 THEN "bullet_list"
    ELSE "plain"

ContentType(numbered_matches, bullet_matches) ==
    IF Len(numbered_matches) >= 2 THEN "numbered_list"
    ELSE IF Len(bullet_matches) >= 2 THEN "bullet_list"
    ELSE "plain"

TextStructure(text, numbered_matches, bullet_matches) ==
    LET content_type == ContentType(numbered_matches, bullet_matches)
    IN [content_type |-> content_type,
        items |-> CASE content_type = "numbered_list" -> StripAll(numbered_matches)
                    [] content_type = "bullet_list" -> StripAll(bullet_matches)
                    [] OTHER -> SplitLines(text),
        has_emphasis |-> ALL_CAPS_PATTERN(strip(text)),
        is_title_case |-> _is_title_case(text),
        original_text |-> text]

analyze_text_structure(text) ==
    IF IsEmptyText(text)
    THEN [content_type |-> "plain", items |-> << >>,
          has_emphasis |-> FALSE, is_title_case |-> FALSE]
    ELSE TextStructure(text, finditer(text, 1, "numbered_list"),
                       finditer(text, 1, "bullet_list"))

(***************************************************************************)
(* Inputs: slide texts of at most MaxLines raw lines drawn from RawLines,  *)
(* the example texts, and the missing text.                                *)
(***************************************************************************)
RECURSIVE Repeat(_, _)
Repeat(c, n) ==
    IF n = 0 THEN ""
    ELSE LET half == Repeat(c, n \div 2) IN
         half \o half \o (IF n % 2 = 1 THEN c ELSE "")

Long150 == Repeat("x", 150)

Long149 == Repeat("x", 149)

RawLines ==
    {" ", " a b c d e f\t", "a b c d e f g:", "Goals:",
     "1. First", "2) b c d e f g", "3: c:", "- DONE", "* y", "Key Metrics"}

ExampleTexts ==
    {"", " \t", " \n\t\n ",
     "Quarterly Report\nQ4 2024\nRevenue grew.",
     "Key Metrics:\nSales up\nUsers up\nChurn down",
     "1. Plan\n2. Build\n3. Ship",
     "Goals:\n1. First\n2. Second",
     "1. Only item",
     "URGENT UPDATE",
     "This is exactly seven words long yes",
     "Quarterly Results Overview",
     "Title\n" \o Long149,
     "Title\n" \o Long150 \o "\nsales up",
     "a b c d e f g\nsales up\nKey Metrics\nsales down",
     "a b c d e f g:\nSales up\nKEY DATA\nChurn down",
     "1.\nfoo\n2. x",
     "1. \n- a\n@ b",
     "Key tasks\n    \nMain project goals:\n1. Build prototype\n2. Run tests\n3. Roll out\n\nNext steps are set by the team."}

Texts ==
    {join_newline(raw) : raw \in UNION {[1..n -> RawLines] : n \in 1..MaxLines}}
    \cup ExampleTexts \cup {None}

SlideIndexes == 0..MaxSlideIndex

(***************************************************************************)
(* State.  text, slide_index: the arguments of split_slide_text; lines,    *)
(* components, i: its locals; remaining_lines, fcomponents, fi: the        *)
(* argument and the locals (components, i) of _format_text_with_lists;     *)
(* extract_call, analysis: a direct call of _extract_list and the result   *)
(* of analyze_text_structure(text).                                        *)
(***************************************************************************)
VARIABLES text, slide_index, pc, lines, components, i,
          remaining_lines, fcomponents, fi, extract_call, analysis

(***************************************************************************)
(* State of role refinement: elements is the argument of                   *)
(* ContentAnalyzer.detect_slide_sections, enhanced_elements its result,    *)
(* reenhanced_elements the result of the call on that result.              *)
(***************************************************************************)
VARIABLES elements, enhanced_elements, reenhanced_elements

refine_vars == <<elements, enhanced_elements, reenhanced_elements>>

(***************************************************************************)
(* State of the design stage: applicator_template is the template of the  *)
(* DesignApplicator, input_element and layout_type the arguments of        *)
(* _apply_to_element and of LayoutEngine.apply_layout (the slide's         *)
(* layout_type); placed is the result of a direct apply_layout call,       *)
(* styled the result of _apply_to_element.                                 *)
(***************************************************************************)
VARIABLES applicator_template, input_element, layout_type, placed, styled

design_vars == <<applicator_template, input_element, layout_type, placed, styled>>

(***************************************************************************)
(* State of a TemplateLoader: files is the content of its designs          *)
(* directory, templates_cache its cache, load_call the last load_template  *)
(* call with the cache it found and its outcome.                           *)
(***************************************************************************)
VARIABLES files, templates_cache, load_call

loader_vars == <<files, templates_cache, load_call>>

(***************************************************************************)
(* State of a rendering round trip: source_items and source_type are the   *)
(* arguments of ContentAnalyzer.format_list_items, rendered its result,    *)
(* parsed the result of TextSplitter._extract_list on the rendered lines,  *)
(* rerendered the rendering of the parsed component.                       *)
(***************************************************************************)
VARIABLES source_items, source_type, rendered, parsed, rerendered

roundtrip_vars == <<source_items, source_type, rendered, parsed, rerendered>>

(***************************************************************************)
(* State of one call of a function wrapped by exponential_backoff:         *)
(* max_retries, initial_delay, backoff_factor, on_retry are the arguments  *)
(* of the decorator; attempt, delay, last_exception the locals of wrapper; *)
(* call_log the outcome of every call of func so far, sleeps the argument  *)
(* of every time.sleep so far, outcome what wrapper returned or raised.    *)
(***************************************************************************)
VARIABLES max_retries, initial_delay, backoff_factor, on_retry,
          attempt, delay, last_exception, call_log, sleeps, outcome

retry_vars == <<max_retries, initial_delay, backoff_factor, on_retry,
                attempt, delay, last_exception, call_log, sleeps, outcome>>

(***************************************************************************)
(* State of the pipeline on one slide: parsed_slide is the result of       *)
(* ContentParser.parse_slide (its elements built from the components of    *)
(* split_slide_text), designed_slide the result of                         *)
(* DesignApplicator._apply_to_slide on it.                                 *)
(***************************************************************************)
VARIABLES parsed_slide, designed_slide

pipeline_vars == <<parsed_slide, designed_slide>>

(***************************************************************************)
(* Objects of a detect_slide_sections call: dict_objects are the dict      *)
(* objects (element records) and list_objects the list objects (sequences  *)
(* of references to dict objects), both indexed by reference; elements_ref *)
(* is the list passed in, returned_ref the list returned, objects_before   *)
(* the objects as they were before the call.                               *)
(***************************************************************************)
VARIABLES dict_objects, list_objects, elements_ref, returned_ref, objects_before

object_vars == <<dict_objects, list_objects, elements_ref, returned_ref, objects_before>>

(***************************************************************************)
(* The web application: jobs is the in-memory dict of jobs, jobs_table the *)
(* rows of the jobs table of the database, both indexed by job id, and     *)
(* threads the background threads, indexed by the id of the job each one   *)
(* was started for.                                                        *)
(***************************************************************************)
VARIABLES jobs, jobs_table, threads

job_vars == <<jobs, jobs_table, threads>>

further_vars == <<roundtrip_vars, retry_vars, pipeline_vars, object_vars, job_vars>>

downstream_vars == <<refine_vars, design_vars, loader_vars, further_vars>>

vars == <<text, slide_index, pc, lines, components, i,
          remaining_lines, fcomponents, fi, extract_call, analysis, downstream_vars>>

extraction_vars == <<text, slide_index, lines, components, i,
                     remaining_lines, fcomponents, fi, extract_call, analysis>>

splitter_vars == <<lines, components, i, remaining_lines, fcomponents, fi>>

NoCall == [start_idx |-> 0, out |-> [result |-> NoComponent, consumed |-> 0]]

NoAnalysis == [content_type |-> None]

RefineIdle ==
    /\ elements = << >>
    /\ enhanced_elements = << >>
    /\ reenhanced_elements = << >>

NoElement == [role |-> None]

NoTemplate == [metadata |-> None]

DesignIdle ==
    /\ applicator_template = NoTemplate
    /\ input_element = NoElement
    /\ layout_type = None
    /\ placed = NoElement
    /\ styled = NoElement

NoLoad == [template_name |-> None]

LoaderIdle ==
    /\ files = << >>
    /\ templates_cache = << >>
    /\ load_call = NoLoad

NoRendering == [content |-> None]

RoundTripIdle ==
    /\ source_items = << >>
    /\ source_type = None
    /\ rendered = NoRendering
    /\ parsed = NoCall.out
    /\ rerendered = NoRendering

NoOutcome == [returned |-> None]

RetryIdle ==
    /\ max_retries = 0
    /\ initial_delay = 0
    /\ backoff_factor = 0
    /\ on_retry = None
    /\ attempt = 0
    /\ delay = 0
    /\ last_exception = None
    /\ call_log = << >>
    /\ sleeps = << >>
    /\ outcome = NoOutcome

NoSlide == [index |-> None]

PipelineIdle ==
    /\ parsed_slide = NoSlide
    /\ designed_slide = NoSlide

NoObjects == [dicts |-> << >>, lists |-> << >>]

ObjectsIdle ==
    /\ dict_objects = << >>
    /\ list_objects = << >>
    /\ elements_ref = 0
    /\ returned_ref = 0
    /\ objects_before = NoObjects

JobsIdle ==
    /\ jobs = << >>
    /\ jobs_table = << >>
    /\ threads = << >>

FurtherIdle == RoundTripIdle /\ RetryIdle /\ PipelineIdle /\ ObjectsIdle /\ JobsIdle

DownstreamIdle == RefineIdle /\ DesignIdle /\ LoaderIdle /\ FurtherIdle

ExtractionIdle ==
    /\ text = None
    /\ slide_index = 0
    /\ lines = << >>
    /\ components = << >>
    /\ i = 0
    /\ remaining_lines = << >>
    /\ fcomponents = << >>
    /\ fi = 0
    /\ extract_call = NoCall
    /\ analysis = NoAnalysis

Init ==
    /\ text \in Texts
    /\ slide_index \in SlideIndexes
    /\ pc = "start"
    /\ lines = << >>
    /\ components = << >>
    /\ i = 0
    /\ remaining_lines = << >>
    /\ fcomponents = << >>
    /\ fi = 0
    /\ extract_call = NoCall
    /\ analysis = NoAnalysis
    /\ DownstreamIdle

(***************************************************************************)
(* split_slide_text, lines 47-90: empty check, line split, title and       *)
(* subtitle detection, hand-over of the remaining lines.                   *)
(***************************************************************************)
SplitHead ==
    /\ pc = "start"
    /\ IF IsEmptyText(text) \/ SplitLines(text) = << >>
       THEN /\ pc' = "done"
            /\ UNCHANGED splitter_vars
       ELSE LET ls == SplitLines(text)
                head == TitleComponents(ls, slide_index)
            IN /\ lines' = ls
               /\ components' = head
               /\ i' = Len(head)
               /\ fcomponents' = << >>
               /\ fi' = 0
               /\ IF HasRemaining(Len(head), ls)
                  THEN /\ remaining_lines' = SubSeq(ls, Len(head) + 1, Len(ls))
                       /\ pc' = "format"
                  ELSE /\ remaining_lines' = << >>
                       /\ pc' = "done"
    /\ UNCHANGED <<text, slide_index, extract_call, analysis,
                   downstream_vars>>

(***************************************************************************)
(* _format_text_with_lists: one loop iteration per action, by branch.      *)
(***************************************************************************)
InLoop == pc = "format" /\ fi < Len(remaining_lines)

Iterate(branch) ==
    /\ fcomponents' = fcomponents \o branch.emitted
    /\ fi' = branch.cursor
    /\ UNCHANGED <<text, slide_index, pc, lines, components, i, remaining_lines,
                   extract_call, analysis,
                   downstream_vars>>

ColonStep ==
    /\ InLoop
    /\ endswith_colon(remaining_lines[fi + 1])
    /\ Iterate(ColonBranch(remaining_lines, fi))

ListStep ==
    /\ InLoop
    /\ ~endswith_colon(remaining_lines[fi + 1])
    /\ _extract_list(remaining_lines, fi).result # NoComponent
    /\ Iterate(ListBranch(remaining_lines, fi))

HeadingStep ==
    /\ InLoop
    /\ ~endswith_colon(remaining_lines[fi + 1])
    /\ _extract_list(remaining_lines, fi).result = NoComponent
    /\ _is_heading(remaining_lines[fi + 1])
    /\ Iterate(HeadingBranch(remaining_lines, fi))

ParagraphStep ==
    /\ InLoop
    /\ ~endswith_colon(remaining_lines[fi + 1])
    /\ _extract_list(remaining_lines, fi).result = NoComponent
    /\ ~_is_heading(remaining_lines[fi + 1])
    /\ Iterate(ParagraphBranch(remaining_lines, fi))

(***************************************************************************)
(* Loop exit: _format_text_with_lists returns, split_slide_text extends    *)
(* its components and returns (lines 90-98).                               *)
(***************************************************************************)
FormatReturn ==
    /\ pc = "format"
    /\ fi >= Len(remaining_lines)
    /\ components' = components \o fcomponents
    /\ pc' = "done"
    /\ UNCHANGED <<text, slide_index, lines, i, remaining_lines, fcomponents, fi,
                   extract_call, analysis,
                   downstream_vars>>

Next ==
    \/ SplitHead
    \/ ColonStep
    \/ ListStep
    \/ HeadingStep
    \/ ParagraphStep
    \/ FormatReturn

Spec == Init /\ [][Next]_vars

(***************************************************************************)
(* The two list recognizers called directly on one text:                   *)
(* ContentAnalyzer.analyze_text_structure(text) and                        *)
(* TextSplitter._extract_list(lines, start_idx) on the text's non-empty    *)
(* trimmed lines, in either order.                                         *)
(***************************************************************************)
StartIndexes(text_lines) ==
    IF text_lines = << >> THEN {0} ELSE 0..(Len(text_lines) - 1)

InitRecognizers ==
    /\ text \in Texts
    /\ slide_index = 0
    /\ pc = "call"
    /\ lines = (IF IsEmptyText(text) THEN << >> ELSE SplitLines(text))
    /\ components = << >>
    /\ i = 0
    /\ remaining_lines = << >>
    /\ fcomponents = << >>
    /\ fi = 0
    /\ \E k \in StartIndexes(IF IsEmptyText(text) THEN << >> ELSE SplitLines(text)) :
          extract_call = [NoCall EXCEPT !.start_idx = k]
    /\ analysis = NoAnalysis
    /\ DownstreamIdle

Analyze ==
    /\ pc \in {"call", "extracted"}
    /\ analysis' = analyze_text_structure(text)
    /\ pc' = (IF pc = "call" THEN "analyzed" ELSE "both")
    /\ UNCHANGED <<text, slide_index, splitter_vars, extract_call, downstream_vars>>

ExtractList ==
    /\ pc \in {"call", "analyzed"}
    /\ lines # << >>
    /\ extract_call' = [extract_call EXCEPT
                           !.out = _extract_list(lines, extract_call.start_idx)]
    /\ pc' = (IF pc = "call" THEN "extracted" ELSE "both")
    /\ UNCHANGED <<text, slide_index, splitter_vars, analysis, downstream_vars>>

NextRecognizers ==
    \/ Analyze
    \/ ExtractList

SpecRecognizers == InitRecognizers /\ [][NextRecognizers]_vars

(***************************************************************************)
(* Role refinement (ContentAnalyzer.detect_slide_sections, _refine_role).  *)
(* An element is a record with content, role and position; position_index  *)
(* is 0-based as in the source.                                            *)
(***************************************************************************)
MaxElements == 3

translateY(e) ==
    IF "position" \in DOMAIN e /\ "translateY" \in DOMAIN e.position
    THEN e.position.translateY
    ELSE 0

InsertPosition_BeforeTies(sorted_prefix, e) ==
    Cardinality({k \in 1..Len(sorted_prefix) : translateY(sorted_prefix[k]) < translateY(e)})

InsertPosition(sorted_prefix, e) ==
    Cardinality({k \in 1..Len(sorted_prefix) : translateY(sorted_prefix[k]) <= translateY(e)})

RECURSIVE sorted_elements(_)
sorted_elements(elems) ==
    IF elems = << >> THEN << >>
    ELSE LET sorted_prefix == sorted_elements(SubSeq(elems, 1, Len(elems) - 1))
             e == elems[Len(elems)]
             p == InsertPosition(sorted_prefix, e)
         IN SubSeq(sorted_prefix, 1, p) \o <<e>>
                \o SubSeq(sorted_prefix, p + 1, Len(sorted_prefix))

IsListType(content_type) == content_type \in {"numbered_list", "bullet_list"}

KeepAssigned_Always(current_role, text_analysis) == current_role

KeepAssigned(current_role, text_analysis) ==
    IF IsListType(text_analysis.content_type) THEN "HEADING" ELSE current_role

RoleBySignals_FooterFirst(content, text_analysis, position_index, total_elements) ==
    IF /\ position_index = 0
       /\ Len(content) < 100
       /\ (text_analysis.has_emphasis \/ text_analysis.is_title_case)
    THEN "TITLE"
    ELSE IF position_index = 1 /\ total_elements >= 2 /\ Len(content) < 150
    THEN "SUBTITLE"
    ELSE IF Len(content) < 100 /\ text_analysis.has_emphasis
    THEN "HEADING"
    ELSE IF position_index = total_elements - 1 /\ Len(content) < 50
    THEN "FOOTER"
    ELSE "BODY"

RoleBySignals(content, text_analysis, position_index, total_elements) ==
    IF /\ position_index = 0
       /\ Len(content) < 100
       /\ (text_analysis.has_emphasis \/ text_analysis.is_title_case)
    THEN "TITLE"
    ELSE IF position_index = 1 /\ total_elements >= 2 /\ Len(content) < 150
    THEN "SUBTITLE"
    ELSE IF Len(content) < 100 /\ text_analysis.has_emphasis
    THEN "HEADING"
    ELSE IF IsListType(text_analysis.content_type)
    THEN "BODY"
    ELSE IF position_index = total_elements - 1 /\ Len(content) < 50
    THEN "FOOTER"
    ELSE "BODY"

_refine_role(element, text_analysis, position_index, total_elements) ==
    LET current_role == IF "role" \in DOMAIN element THEN element.role ELSE "BODY"
        content == strip(IF "content" \in DOMAIN element THEN element.content ELSE "")
    IN IF current_role \in {"TITLE", "SUBTITLE"}
       THEN KeepAssigned(current_role, text_analysis)
       ELSE RoleBySignals(content, text_analysis, position_index, total_elements)

Enhanced(element, idx, total_elements) ==
    LET text_analysis == analyze_text_structure(element.content)
        refined_role == _refine_role(element, text_analysis, idx, total_elements)
    IN [f \in DOMAIN element \cup {"text_analysis", "role"} |->
           IF f = "text_analysis" THEN text_analysis
           ELSE IF f = "role" THEN refined_role
           ELSE element[f]]

detect_slide_sections(elems) ==
    IF elems = << >> THEN << >>
    ELSE LET sorted == sorted_elements(elems) IN
         [k \in 1..Len(sorted) |-> Enhanced(sorted[k], k - 1, Len(sorted))]

(***************************************************************************)
(* Elements of one slide as ContentParser builds them: non-blank content,  *)
(* a role, a position with translateY (or an empty position).              *)
(***************************************************************************)
Long60 == Repeat("x", 60)

Element(content, role, y) ==
    [content |-> content, role |-> role, position |-> [translateY |-> y]]

RawElements ==
    {Element("URGENT UPDATE", "BODY", 0),
     Element("Quarterly Report", "BODY", 1),
     Element("Quarterly Report", "TITLE", 1),
     Element("sales grew", "FOOTER", 1),
     Element("sales grew", "SUBTITLE", 0),
     Element("1. First\n2. Second", "BODY", 0),
     Element("1. First\n2. Second", "TITLE", 1),
     Element("- a\n- b", "BODY", 1),
     Element("- a\n- b", "SUBTITLE", 0),
     Element("- A\n- B", "HEADING", 0),
     Element(Long60, "BODY", 1),
     Element(Long149, "HEADING", 0),
     [content |-> Long150, role |-> "BODY", position |-> << >>]}

Slides == UNION {[1..n -> RawElements] : n \in 0..MaxElements}

InitRefine ==
    /\ elements \in Slides
    /\ enhanced_elements = << >>
    /\ reenhanced_elements = << >>
    /\ pc = "elements"
    /\ ExtractionIdle
    /\ DesignIdle
    /\ LoaderIdle
    /\ FurtherIdle

DetectSections ==
    /\ pc = "elements"
    /\ enhanced_elements' = detect_slide_sections(elements)
    /\ pc' = "enhanced"
    /\ UNCHANGED <<elements, reenhanced_elements, extraction_vars, design_vars, loader_vars, further_vars>>

DetectSectionsAgain ==
    /\ pc = "enhanced"
    /\ reenhanced_elements' = detect_slide_sections(enhanced_elements)
    /\ pc' = "reenhanced"
    /\ UNCHANGED <<elements, enhanced_elements, extraction_vars, design_vars, loader_vars, further_vars>>

NextRefine ==
    \/ DetectSections
    \/ DetectSectionsAgain

SpecRefine == InitRefine /\ [][NextRefine]_vars

(***************************************************************************)
(* Python helpers of the design stage: str.lower, str.upper, dict.get, a   *)
(* raised exception as a value.                                            *)
(***************************************************************************)
UpperAlphabet == "ABCDEFGHIJKLMNOPQRSTUVWXYZ"

LowerAlphabet == "abcdefghijklmnopqrstuvwxyz"

IndexIn(alphabet, c) ==
    LET found == {k \in 1..Len(alphabet) : Ch(alphabet, k) = c} IN
    IF found = {} THEN 0 ELSE CHOOSE k \in found : TRUE

RECURSIVE MapChars(_, _, _)
MapChars(s, from, to) ==
    IF s = "" THEN ""
    ELSE LET k == IndexIn(from, Ch(s, 1)) IN
         (IF k = 0 THEN Ch(s, 1) ELSE Ch(to, k)) \o MapChars(SubSeq(s, 2, Len(s)), from, to)

lower(s) == MapChars(s, UpperAlphabet, LowerAlphabet)

upper(s) == MapChars(s, LowerAlphabet, UpperAlphabet)

get(dict, key, default) == IF key \in DOMAIN dict THEN dict[key] ELSE default

Raised(exception, detail) == [raised |-> exception, detail |-> detail]

NoException == [raised |-> None, detail |-> None]

IsRaised(result) == "raised" \in DOMAIN result

(***************************************************************************)
(* Template Validator (TemplateValidator.validate_template): the first     *)
(* missing section, typography role or color raises.                       *)
(***************************************************************************)
required_sections == <<"metadata", "typography", "colors", "layouts">>

required_roles == <<"title", "heading", "body">>

required_colors_WithoutText == <<"primary", "secondary", "background">>

required_colors == <<"primary", "secondary", "background", "text">>

Missing(required, dict) ==
    SelectSeq(required, LAMBDA name : name \notin DOMAIN dict)

validate_template(template) ==
    IF Missing(required_sections, template) # << >>
    THEN Raised("TemplateValidationError",
                "Missing required section: " \o Head(Missing(required_sections, template)))
    ELSE IF Missing(required_roles, template.typography) # << >>
    THEN Raised("TemplateValidationError",
                "Missing typography for role: " \o Head(Missing(required_roles, template.typography)))
    ELSE IF Missing(required_colors, template.colors) # << >>
    THEN Raised("TemplateValidationError",
                "Missing color: " \o Head(Missing(required_colors, template.colors)))
    ELSE NoException

(***************************************************************************)
(* Layout Engine (LayoutEngine.apply_layout): the element with its         *)
(* styled_position set.                                                    *)
(***************************************************************************)
LayoutKey_AlwaysContent(slide_layout) == "content_slide"

LayoutKey(slide_layout) ==
    IF slide_layout = "TITLE" THEN "title_slide" ELSE "content_slide"

PositionKey(role, layout) ==
    IF (role \o "_position") \in DOMAIN layout
    THEN role \o "_position"
    ELSE "body_position"

apply_layout(element, template, slide_layout) ==
    LET role == lower(get(element, "role", "body"))
        layouts == get(template, "layouts", << >>)
        layout == get(layouts, LayoutKey(slide_layout), << >>)
        new_position == get(layout, PositionKey(role, layout), get(element, "position", << >>))
    IN [f \in DOMAIN element \cup {"styled_position"} |->
           IF f = "styled_position" THEN new_position ELSE element[f]]

(***************************************************************************)
(* Canonical list formatter (ContentAnalyzer.format_list_items).           *)
(***************************************************************************)
format_list_items_NoSpace(items, list_type) ==
    IF list_type = "numbered_list"
    THEN join_newline([k \in 1..Len(items) |-> IntStr((k - 1) + 1) \o "." \o items[k]])
    ELSE IF list_type = "bullet_list"
    THEN join_newline([k \in 1..Len(items) |-> BULLET \o items[k]])
    ELSE join_newline(items)

format_list_items_Dashes(items, list_type) ==
    IF list_type = "numbered_list"
    THEN join_newline([k \in 1..Len(items) |-> IntStr((k - 1) + 1) \o ". " \o items[k]])
    ELSE IF list_type = "bullet_list"
    THEN join_newline([k \in 1..Len(items) |-> "- " \o items[k]])
    ELSE join_newline(items)

format_list_items(items, list_type) ==
    IF list_type = "numbered_list"
    THEN join_newline([k \in 1..Len(items) |-> IntStr((k - 1) + 1) \o ". " \o items[k]])
    ELSE IF list_type = "bullet_list"
    THEN join_newline([k \in 1..Len(items) |-> BULLET \o " " \o items[k]])
    ELSE join_newline(items)

(***************************************************************************)
(* Design Applicator (DesignApplicator._apply_to_element and               *)
(* _handle_list_element).  A missing dictionary key raises KeyError at the *)
(* first subscript that needs it, in the order of the source.              *)
(***************************************************************************)
color_map ==
    [title |-> "primary", subtitle |-> "secondary", heading |-> "primary",
     body |-> "text", footer |-> "text_light"]

FirstMissingKey(keys, dict) ==
    LET missing == Missing(keys, dict) IN
    IF missing = << >> THEN None ELSE Head(missing)

ListFontSize_NoFloor(font_size) == font_size - 2

ListFontSize(font_size) == IF font_size - 2 > 14 THEN font_size - 2 ELSE 14

_handle_list_element(element, text_analysis, typography, color, slide_layout, template) ==
    LET items == get(text_analysis, "items", << >>)
        content_type == get(text_analysis, "content_type", None)
        formatted_content == format_list_items(items, content_type)
        shrinks == upper(get(element, "role", "")) # "TITLE"
        missing == FirstMissingKey(<<"font_family", "font_size", "font_weight">>, typography)
    IN IF shrinks /\ "font_size" \notin DOMAIN typography
       THEN Raised("KeyError", "font_size")
       ELSE IF "role" \notin DOMAIN element
       THEN Raised("KeyError", "role")
       ELSE IF missing # None
       THEN Raised("KeyError", missing)
       ELSE apply_layout(
                [content |-> formatted_content,
                 role |-> element.role,
                 font_family |-> typography.font_family,
                 font_size |-> IF shrinks THEN ListFontSize(typography.font_size)
                               ELSE typography.font_size,
                 font_weight |-> typography.font_weight,
                 line_height |-> get(typography, "line_height", "1.6"),
                 color |-> color,
                 original_position |-> get(element, "position", << >>),
                 content_type |-> content_type,
                 is_list |-> TRUE],
                template, slide_layout)

PlainElement(element, typography, color, content_type, slide_layout, template) ==
    LET missing == FirstMissingKey(<<"font_family", "font_size", "font_weight", "line_height">>,
                                   typography)
    IN IF "content" \notin DOMAIN element
       THEN Raised("KeyError", "content")
       ELSE IF "role" \notin DOMAIN element
       THEN Raised("KeyError", "role")
       ELSE IF missing # None
       THEN Raised("KeyError", missing)
       ELSE apply_layout(
                [content |-> strip(element.content),
                 role |-> element.role,
                 font_family |-> typography.font_family,
                 font_size |-> typography.font_size,
                 font_weight |-> typography.font_weight,
                 line_height |-> typography.line_height,
                 color |-> color,
                 original_position |-> get(element, "position", << >>),
                 content_type |-> content_type],
                template, slide_layout)

_apply_to_element(template, element, slide_layout) ==
    LET role == lower(get(element, "role", "body")) IN
    IF "typography" \notin DOMAIN template
    THEN Raised("KeyError", "typography")
    ELSE IF "body" \notin DOMAIN template.typography
    THEN Raised("KeyError", "body")
    ELSE LET typography == get(template.typography, role, template.typography.body)
             color_key == get(color_map, role, "text")
         IN IF "colors" \notin DOMAIN template
            THEN Raised("KeyError", "colors")
            ELSE IF color_key \notin DOMAIN template.colors
            THEN Raised("KeyError", color_key)
            ELSE LET color == template.colors[color_key]
                     text_analysis == get(element, "text_analysis", << >>)
                     content_type == get(text_analysis, "content_type", "plain")
                 IN IF IsListType(content_type)
                    THEN _handle_list_element(element, text_analysis, typography, color,
                                              slide_layout, template)
                    ELSE PlainElement(element, typography, color, content_type,
                                      slide_layout, template)

(***************************************************************************)
(* Templates: typography per role, colors, layouts per slide layout; the   *)
(* body font size ranges over FontSizes.  Some lack what the validator     *)
(* requires, some lack only what it does not check.                        *)
(***************************************************************************)
MaxFontSize == 17

FontSizes == 11..MaxFontSize

Typography(size) ==
    [font_family |-> "Arial", font_size |-> size, font_weight |-> "normal",
     line_height |-> "1.2"]

Rect(x, y) == [x |-> x, y |-> y, width |-> 600, height |-> 100]

BasicTypography(size) ==
    [title |-> Typography(size + 20), heading |-> Typography(size + 6),
     body |-> Typography(size)]

RichTypography(size) ==
    [title |-> Typography(size + 20), subtitle |-> Typography(size + 4),
     heading |-> Typography(size + 6), body |-> Typography(size),
     footer |-> Typography(size - 2)]

BareTypography(size) ==
    [title |-> Typography(size + 20), heading |-> Typography(size + 6),
     body |-> [font_family |-> "Arial", font_size |-> size, font_weight |-> "normal"]]

NoBodyTypography(size) ==
    [title |-> Typography(size + 20), heading |-> Typography(size + 6)]

BasicColors ==
    [primary |-> "#112233", secondary |-> "#445566", background |-> "#ffffff",
     text |-> "#333333"]

RichColors ==
    [primary |-> "#112233", secondary |-> "#445566", background |-> "#ffffff",
     text |-> "#333333", text_light |-> "#999999"]

NoTextColors ==
    [primary |-> "#112233", secondary |-> "#445566", background |-> "#ffffff"]

FullLayouts ==
    [title_slide |-> [title_position |-> Rect(1, 1), subtitle_position |-> Rect(1, 2),
                      body_position |-> Rect(1, 3)],
     content_slide |-> [title_position |-> Rect(2, 1), body_position |-> Rect(2, 3)]]

SparseLayouts ==
    [title_slide |-> [title_position |-> Rect(1, 1)], content_slide |-> << >>]

Template(name, typography, colors, layouts) ==
    [metadata |-> [name |-> name], typography |-> typography, colors |-> colors,
     layouts |-> layouts]

TemplatesOfSize(size) ==
    {Template("minimal", BasicTypography(size), BasicColors, FullLayouts),
     Template("rich", RichTypography(size), RichColors, FullLayouts),
     Template("sparse", BasicTypography(size), BasicColors, SparseLayouts),
     Template("bare", BareTypography(size), RichColors, << >>),
     Template("no_body", NoBodyTypography(size), BasicColors, FullLayouts),
     Template("no_text", BasicTypography(size), NoTextColors, FullLayouts),
     [metadata |-> [name |-> "no_layouts"], typography |-> BasicTypography(size),
      colors |-> BasicColors],
     [typography |-> RichTypography(size), colors |-> RichColors, layouts |-> FullLayouts]}

Templates == UNION {TemplatesOfSize(size) : size \in FontSizes}

(***************************************************************************)
(* Elements handed to the applicator: results of role refinement, elements *)
(* built by ContentParser.parse_slide from splitter components, and        *)
(* elements with an unknown role, without role, content, position or       *)
(* text_analysis.                                                          *)
(***************************************************************************)
ElementOfComponent(comp) ==
    [type |-> "TEXT",
     content |-> comp.content,
     role |-> comp.role,
     position |-> << >>,
     size |-> << >>,
     text_analysis |->
         IF get(comp, "is_list", FALSE)
         THEN [content_type |-> get(comp, "content_type", None),
               items |-> get(comp, "items", << >>),
               has_emphasis |-> FALSE,
               is_title_case |-> FALSE,
               original_text |-> comp.content]
         ELSE analyze_text_structure(comp.content)]

DesignElements ==
    {detect_slide_sections(<<e>>)[1] : e \in RawElements}
    \cup {detect_slide_sections(<<Element("Quarterly Report", "TITLE", 0), e>>)[2] :
            e \in {Element("- a\n- b", "BODY", 1), Element("sales grew", "FOOTER", 1)}}
    \cup {ElementOfComponent(comp) :
            comp \in {TitleComponent("Quarterly Report"),
                      PlainHeading("KEY DATA", 1),
                      ColonList(<<"Sales up", "Churn down">>, 3),
                      _extract_list(<<"1. First", "2) b c d e f g">>, 0).result}}
    \cup {[content |-> "  padded\t", role |-> "BODY"],
          [content |-> "Caption", role |-> "CAPTION", position |-> [translateY |-> 5]],
          [content |-> "no role", position |-> [translateY |-> 5]],
          [role |-> "BODY", position |-> [translateY |-> 5]],
          [content |-> "1. First\n2. Second", role |-> "Title", position |-> [translateY |-> 5],
           text_analysis |-> analyze_text_structure("1. First\n2. Second")],
          [content |-> "- a\n- b", role |-> "FOOTER", position |-> [translateY |-> 5],
           text_analysis |-> analyze_text_structure("- a\n- b")]}

SlideLayouts == {"TITLE", "SECTION", "CONTENT"}

(***************************************************************************)
(* The design stage on one element: a direct LayoutEngine.apply_layout     *)
(* call, which sets styled_position on the element it is given, and        *)
(* DesignApplicator._apply_to_element, in either order.                    *)
(***************************************************************************)
InitDesign ==
    /\ applicator_template \in Templates
    /\ input_element \in DesignElements
    /\ layout_type \in SlideLayouts
    /\ placed = NoElement
    /\ styled = NoElement
    /\ pc = "design"
    /\ ExtractionIdle
    /\ RefineIdle
    /\ LoaderIdle
    /\ FurtherIdle

ApplyLayout ==
    /\ pc \in {"design", "styled"}
    /\ placed' = apply_layout(input_element, applicator_template, layout_type)
    /\ input_element' = placed'
    /\ pc' = (IF pc = "design" THEN "placed" ELSE "both")
    /\ UNCHANGED <<applicator_template, layout_type, styled,
                   extraction_vars, refine_vars, loader_vars, further_vars>>

ApplyToElement ==
    /\ pc \in {"design", "placed"}
    /\ styled' = _apply_to_element(applicator_template, input_element, layout_type)
    /\ pc' = (IF pc = "design" THEN "styled" ELSE "both")
    /\ UNCHANGED <<applicator_template, input_element, layout_type, placed,
                   extraction_vars, refine_vars, loader_vars, further_vars>>

NextDesign ==
    \/ ApplyLayout
    \/ ApplyToElement

SpecDesign == InitDesign /\ [][NextDesign]_vars

(***************************************************************************)
(* Template Loader (TemplateLoader.load_template, clear_cache).  A file of *)
(* the designs directory is missing, holds text that is not JSON, or holds *)
(* a JSON object; the directory does not change during a run.              *)
(***************************************************************************)
TemplateNames == {"default", "corporate_blue"}

FileMissing == [kind |-> "missing"]

InvalidJson == [kind |-> "text", text |-> "{not json"]

JsonFile(value) == [kind |-> "json", value |-> value]

FileContents ==
    {FileMissing, InvalidJson} \cup {JsonFile(t) : t \in TemplatesOfSize(MaxFontSize)}

Directories == [TemplateNames -> FileContents]

Cached(cache, template_name, template_data) ==
    [n \in DOMAIN cache \cup {template_name} |->
        IF n = template_name THEN template_data ELSE cache[n]]

load_template(cache, directory, template_name, use_cache) ==
    IF use_cache /\ template_name \in DOMAIN cache
    THEN [out |-> cache[template_name], cache |-> cache]
    ELSE IF directory[template_name].kind = "missing"
    THEN [out |-> Raised("TemplateError", "Template not found: " \o template_name),
          cache |-> cache]
    ELSE IF directory[template_name].kind # "json"
    THEN [out |-> Raised("TemplateError", "Invalid JSON in template " \o template_name),
          cache |-> cache]
    ELSE LET template_data == directory[template_name].value
             validation == validate_template(template_data)
         IN IF validation # NoException
            THEN [out |-> Raised("TemplateError",
                                 "Failed to load template " \o template_name \o ": "
                                     \o validation.detail),
                  cache |-> cache]
            ELSE [out |-> template_data,
                  cache |-> Cached(cache, template_name, template_data)]

InitLoader ==
    /\ files \in Directories
    /\ templates_cache = << >>
    /\ load_call = NoLoad
    /\ pc = "loader"
    /\ ExtractionIdle
    /\ RefineIdle
    /\ DesignIdle
    /\ FurtherIdle

LoadTemplate ==
    /\ pc = "loader"
    /\ \E template_name \in TemplateNames, use_cache \in BOOLEAN :
          LET call == load_template(templates_cache, files, template_name, use_cache) IN
          /\ templates_cache' = call.cache
          /\ load_call' = [template_name |-> template_name,
                           use_cache |-> use_cache,
                           cache_before |-> templates_cache,
                           cache_after |-> call.cache,
                           out |-> call.out]
    /\ UNCHANGED <<pc, files, extraction_vars, refine_vars, design_vars, further_vars>>

ClearCache ==
    /\ pc = "loader"
    /\ templates_cache' = << >>
    /\ UNCHANGED <<pc, files, load_call, extraction_vars, refine_vars, design_vars, further_vars>>

NextLoader ==
    \/ LoadTemplate
    \/ ClearCache

SpecLoader == InitLoader /\ [][NextLoader]_vars

(***************************************************************************)
(* Rendering round trip: format_list_items(items, list_type), the rendered *)
(* text split into lines and handed to _extract_list at line 0, and        *)
(* format_list_items on the items and type of the component it returns.    *)
(* Items are non-empty single lines without outer whitespace; some look    *)
(* like list markers or headings themselves.                               *)
(***************************************************************************)
MaxItems == 3

ItemTexts == {"a", "First item", "1. x", "- y", "3) z:", "@", "a  b", "10"}

TenItems == [k \in 1..10 |-> IF k % 2 = 0 THEN "b" ELSE "2. a"]

ItemLists == UNION {[1..n -> ItemTexts] : n \in 1..MaxItems} \cup {TenItems}

ListTypes == {"numbered_list", "bullet_list"}

InitRoundTrip ==
    /\ source_items \in ItemLists
    /\ source_type \in ListTypes
    /\ rendered = NoRendering
    /\ parsed = NoCall.out
    /\ rerendered = NoRendering
    /\ pc = "items"
    /\ ExtractionIdle
    /\ RefineIdle
    /\ DesignIdle
    /\ LoaderIdle
    /\ RetryIdle
    /\ PipelineIdle
    /\ ObjectsIdle
    /\ JobsIdle

Render ==
    /\ pc = "items"
    /\ rendered' = [content |-> format_list_items(source_items, source_type)]
    /\ pc' = "rendered"
    /\ UNCHANGED <<source_items, source_type, parsed, rerendered,
                   extraction_vars, refine_vars, design_vars, loader_vars, retry_vars,
                   pipeline_vars, object_vars, job_vars>>

ParseBack ==
    /\ pc = "rendered"
    /\ parsed' = _extract_list(split_newline(rendered.content), 0)
    /\ pc' = "parsed"
    /\ UNCHANGED <<source_items, source_type, rendered, rerendered,
                   extraction_vars, refine_vars, design_vars, loader_vars, retry_vars,
                   pipeline_vars, object_vars, job_vars>>

RenderAgain ==
    /\ pc = "parsed"
    /\ parsed.result # NoComponent
    /\ rerendered' = [content |-> format_list_items(parsed.result.items,
                                                    parsed.result.content_type)]
    /\ pc' = "rerendered"
    /\ UNCHANGED <<source_items, source_type, rendered, parsed,
                   extraction_vars, refine_vars, design_vars, loader_vars, retry_vars,
                   pipeline_vars, object_vars, job_vars>>

NextRoundTrip ==
    \/ Render
    \/ ParseBack
    \/ RenderAgain

SpecRoundTrip == InitRoundTrip /\ [][NextRoundTrip]_vars

(***************************************************************************)
(* Retry with exponential backoff (utils/retry.py, exponential_backoff).   *)
(* One action per way an iteration of the loop of wrapper can go.  A call  *)
(* of func returns a value, raises one of the listed exceptions, or raises *)
(* another exception; the on_retry callback, when given, returns or        *)
(* raises.  Delays are whole seconds.                                      *)
(***************************************************************************)
MaxRetries == 3

MaxDelay == 2

MaxFactor == 3

ReturnValues == {"v1", "v2"}

ListedExceptions == {"ConnectionError", "TimeoutError"}

UnlistedExceptions == {"KeyboardInterrupt"}

Returned(value) == [returned |-> value]

NextDelay_Additive(d, factor) == d + factor

NextDelay(d, factor) == d * factor

Exhausted(attempts, retries) == attempts > retries

InitRetry ==
    /\ max_retries \in 0..MaxRetries
    /\ initial_delay \in 1..MaxDelay
    /\ backoff_factor \in 1..MaxFactor
    /\ on_retry \in {None, "callback"}
    /\ attempt = 0
    /\ delay = initial_delay
    /\ last_exception = None
    /\ call_log = << >>
    /\ sleeps = << >>
    /\ outcome = NoOutcome
    /\ pc = "retry"
    /\ ExtractionIdle
    /\ RefineIdle
    /\ DesignIdle
    /\ LoaderIdle
    /\ RoundTripIdle
    /\ PipelineIdle
    /\ ObjectsIdle
    /\ JobsIdle

InRetryLoop == pc = "retry" /\ attempt <= max_retries

retry_config == <<max_retries, initial_delay, backoff_factor, on_retry>>

retry_frame == <<retry_config, extraction_vars, refine_vars, design_vars, loader_vars,
                 roundtrip_vars, pipeline_vars, object_vars, job_vars>>

CallReturns ==
    /\ InRetryLoop
    /\ \E value \in ReturnValues :
          /\ call_log' = Append(call_log, Returned(value))
          /\ outcome' = Returned(value)
    /\ pc' = "returned"
    /\ UNCHANGED <<attempt, delay, last_exception, sleeps, retry_frame>>

CallRaisesUnlisted ==
    /\ InRetryLoop
    /\ \E e \in UnlistedExceptions :
          /\ call_log' = Append(call_log, Raised(e, "func"))
          /\ outcome' = Raised(e, "func")
    /\ pc' = "raised"
    /\ UNCHANGED <<attempt, delay, last_exception, sleeps, retry_frame>>

CallRaisesLast ==
    /\ InRetryLoop
    /\ Exhausted(attempt + 1, max_retries)
    /\ \E e \in ListedExceptions :
          /\ call_log' = Append(call_log, Raised(e, "func"))
          /\ last_exception' = e
    /\ attempt' = attempt + 1
    /\ outcome' = Raised("RetryError", "Max retries exceeded")
    /\ pc' = "raised"
    /\ UNCHANGED <<delay, sleeps, retry_frame>>

CallRaisesAndRetries ==
    /\ InRetryLoop
    /\ ~Exhausted(attempt + 1, max_retries)
    /\ \E e \in ListedExceptions :
          /\ call_log' = Append(call_log, Raised(e, "func"))
          /\ last_exception' = e
    /\ attempt' = attempt + 1
    /\ sleeps' = Append(sleeps, delay)
    /\ delay' = NextDelay(delay, backoff_factor)
    /\ UNCHANGED <<pc, outcome, retry_frame>>

CallRaisesAndCallbackRaises ==
    /\ InRetryLoop
    /\ ~Exhausted(attempt + 1, max_retries)
    /\ on_retry # None
    /\ \E e \in ListedExceptions :
          /\ call_log' = Append(call_log, Raised(e, "func"))
          /\ last_exception' = e
    /\ attempt' = attempt + 1
    /\ outcome' = Raised("ValueError", "on_retry")
    /\ pc' = "raised"
    /\ UNCHANGED <<delay, sleeps, retry_frame>>

NextRetry ==
    \/ CallReturns
    \/ CallRaisesUnlisted
    \/ CallRaisesLast
    \/ CallRaisesAndRetries
    \/ CallRaisesAndCallbackRaises

SpecRetry == InitRetry /\ [][NextRetry]_vars

(***************************************************************************)
(* The pipeline on one slide: ContentParser.parse_slide splits the slide's *)
(* text, builds one element per component, and                             *)
(* DesignApplicator._apply_to_slide styles every element.  The text is     *)
(* what _extract_all_slide_text returns: trimmed parts joined by newlines. *)
(* split_slide_text is the whole call of TextSplitter.split_slide_text:    *)
(* the branches of the steps above, run to the end of the loop.            *)
(***************************************************************************)
BranchAt(ls, idx) ==
    IF endswith_colon(ls[idx + 1]) THEN ColonBranch(ls, idx)
    ELSE IF _extract_list(ls, idx).result # NoComponent THEN ListBranch(ls, idx)
    ELSE IF _is_heading(ls[idx + 1]) THEN HeadingBranch(ls, idx)
    ELSE ParagraphBranch(ls, idx)

RECURSIVE _format_text_with_lists(_, _, _)
FormatNext(ls, acc, branch) ==
    _format_text_with_lists(ls, branch.cursor, acc \o branch.emitted)

_format_text_with_lists(ls, idx, acc) ==
    IF idx >= Len(ls) THEN acc ELSE FormatNext(ls, acc, BranchAt(ls, idx))

SplitRemaining(ls, head) ==
    IF HasRemaining(Len(head), ls)
    THEN head \o _format_text_with_lists(SubSeq(ls, Len(head) + 1, Len(ls)), 0, << >>)
    ELSE head

split_slide_text(t, index) ==
    IF IsEmptyText(t) \/ SplitLines(t) = << >>
    THEN << >>
    ELSE SplitRemaining(SplitLines(t), TitleComponents(SplitLines(t), index))

MaxPipelineLines == 2

PipelineExamples ==
    {"Intro\nsome words\n1.\nfoo\n2.\nbar",
     "Intro\n-\nfoo\n-\nbar",
     "Summary\n- Sales up\n- Churn down\n1. Plan\n2. Build",
     "this line has more than six words in it\nsecond  line\t of text"}

PipelineTexts ==
    {t \in {join_newline(raw) :
                raw \in UNION {[1..n -> RawLines] : n \in 1..MaxPipelineLines}}
           \cup ExampleTexts \cup PipelineExamples : strip(t) = t}

PipelineTemplates ==
    {Template("minimal", BasicTypography(MaxFontSize), BasicColors, FullLayouts),
     Template("rich", RichTypography(MaxFontSize), RichColors, FullLayouts)}

_determine_layout_type(index) == IF index = 0 THEN {"TITLE"} ELSE SlideLayouts

FirstRaised(results) ==
    LET raised == SelectSeq(results, IsRaised) IN
    IF raised = << >> THEN NoException ELSE Head(raised)

StyledSlide(template, slide, results) ==
    IF FirstRaised(results) # NoException
    THEN FirstRaised(results)
    ELSE [index |-> slide.index,
          layout_type |-> slide.layout_type,
          background_color |-> template.colors.background,
          elements |-> results]

_apply_to_slide(template, slide) ==
    IF "colors" \notin DOMAIN template
    THEN Raised("KeyError", "colors")
    ELSE IF "background" \notin DOMAIN template.colors
    THEN Raised("KeyError", "background")
    ELSE StyledSlide(template, slide,
                     [k \in 1..Len(slide.elements) |->
                         _apply_to_element(template, slide.elements[k], slide.layout_type)])

InitPipeline ==
    /\ text \in PipelineTexts
    /\ slide_index \in SlideIndexes
    /\ pc = "start"
    /\ lines = << >>
    /\ components = << >>
    /\ i = 0
    /\ remaining_lines = << >>
    /\ fcomponents = << >>
    /\ fi = 0
    /\ extract_call = NoCall
    /\ analysis = NoAnalysis
    /\ applicator_template \in PipelineTemplates
    /\ input_element = NoElement
    /\ layout_type \in _determine_layout_type(slide_index)
    /\ placed = NoElement
    /\ styled = NoElement
    /\ parsed_slide = NoSlide
    /\ designed_slide = NoSlide
    /\ RefineIdle
    /\ LoaderIdle
    /\ RoundTripIdle
    /\ RetryIdle
    /\ ObjectsIdle
    /\ JobsIdle

ParseSlide ==
    /\ pc = "start"
    /\ applicator_template # NoTemplate
    /\ components' = split_slide_text(text, slide_index)
    /\ parsed_slide' = [index |-> slide_index,
                        layout_type |-> layout_type,
                        elements |-> [k \in 1..Len(components') |->
                                         ElementOfComponent(components'[k])]]
    /\ pc' = "parsed"
    /\ UNCHANGED <<text, slide_index, lines, i, remaining_lines, fcomponents, fi,
                   extract_call, analysis, designed_slide, refine_vars, design_vars,
                   loader_vars, roundtrip_vars, retry_vars, object_vars, job_vars>>

ApplyToSlide ==
    /\ pc = "parsed"
    /\ designed_slide' = _apply_to_slide(applicator_template, parsed_slide)
    /\ pc' = "designed"
    /\ UNCHANGED <<parsed_slide, extraction_vars, refine_vars, design_vars, loader_vars,
                   roundtrip_vars, retry_vars, object_vars, job_vars>>

NextPipeline ==
    \/ ParseSlide
    \/ ApplyToSlide

SpecPipeline == InitPipeline /\ [][NextPipeline]_vars

(***************************************************************************)
(* detect_slide_sections on objects.  sorted() and [] make new list        *)
(* objects, element.copy() a new dict object with the fields of the        *)
(* element; text_analysis and role are assigned to the object that         *)
(* 'enhanced' refers to.  A reference is an index into dict_objects or     *)
(* list_objects.  The nested position dict is shared by a copy and its     *)
(* original and is never written.                                          *)
(***************************************************************************)
copy_SameObject(objects, ref) == [objects |-> objects, ref |-> ref]

copy(objects, ref) == [objects |-> Append(objects, objects[ref]), ref |-> Len(objects) + 1]

SortKey(objects, ref) ==
    IF "position" \in DOMAIN objects[ref]
    THEN [ref |-> ref, position |-> objects[ref].position]
    ELSE [ref |-> ref]

RefsOf(keyed) == [k \in 1..Len(keyed) |-> keyed[k].ref]

sorted_refs(objects, refs) ==
    RefsOf(sorted_elements([k \in 1..Len(refs) |-> SortKey(objects, refs[k])]))

RECURSIVE EnhanceFrom(_, _, _, _)
EnhanceCopy(sorted, idx, enhanced_refs, element_ref, copied) ==
    EnhanceFrom([copied.objects EXCEPT
                    ![copied.ref] = Enhanced(copied.objects[element_ref], idx, Len(sorted))],
                sorted, idx + 1, Append(enhanced_refs, copied.ref))

EnhanceFrom(objects, sorted, idx, enhanced_refs) ==
    IF idx >= Len(sorted)
    THEN [dicts |-> objects, enhanced |-> enhanced_refs]
    ELSE EnhanceCopy(sorted, idx, enhanced_refs, sorted[idx + 1],
                     copy(objects, sorted[idx + 1]))

SectionsResult(lists, sorted, loop) ==
    [dicts |-> loop.dicts,
     lists |-> lists \o <<loop.enhanced, sorted>>,
     returned |-> Len(lists) + 1]

detect_slide_sections_objects(objects, lists, ref) ==
    IF lists[ref] = << >>
    THEN [dicts |-> objects, lists |-> Append(lists, << >>), returned |-> Len(lists) + 1]
    ELSE SectionsResult(lists, sorted_refs(objects, lists[ref]),
                        EnhanceFrom(objects, sorted_refs(objects, lists[ref]), 0, << >>))

InitObjects ==
    /\ dict_objects \in Slides
    /\ list_objects = <<[k \in 1..Len(dict_objects) |-> k]>>
    /\ elements_ref = 1
    /\ returned_ref = 0
    /\ objects_before = [dicts |-> dict_objects, lists |-> list_objects]
    /\ pc = "objects"
    /\ ExtractionIdle
    /\ RefineIdle
    /\ DesignIdle
    /\ LoaderIdle
    /\ RoundTripIdle
    /\ RetryIdle
    /\ PipelineIdle
    /\ JobsIdle

CallResult(result) ==
    /\ dict_objects' = result.dicts
    /\ list_objects' = result.lists
    /\ returned_ref' = result.returned

CallDetectSections ==
    /\ pc = "objects"
    /\ CallResult(detect_slide_sections_objects(dict_objects, list_objects, elements_ref))
    /\ pc' = "sections"
    /\ UNCHANGED <<elements_ref, objects_before, extraction_vars, refine_vars, design_vars,
                   loader_vars, roundtrip_vars, retry_vars, pipeline_vars, job_vars>>

NextObjects == CallDetectSections

SpecObjects == InitObjects /\ [][NextObjects]_vars

(***************************************************************************)
(* The jobs of the web application.  A request handler creates a job in    *)
(* the in-memory dict and starts a daemon thread for it; the thread sets   *)
(* the job's status when its work ends.  save_job_to_db writes the job as  *)
(* it is in memory to the jobs table (INSERT OR REPLACE); it catches every *)
(* exception of the database and returns False, which no caller in a       *)
(* thread looks at, so db_ok is the outcome of the write.  A job id is the *)
(* first 8 characters of a fresh uuid4: any id not yet in use.             *)
(***************************************************************************)
MaxJobs == 2

JobIds == 1..MaxJobs

Job(status, slides) == [status |-> status, slides |-> slides]

Thread(target, at) == [target |-> target, at |-> at]

Put(dict, key, value) ==
    [k \in DOMAIN dict \cup {key} |-> IF k = key THEN value ELSE dict[k]]

save_job_to_db(table, job_id, job_data, db_ok) ==
    IF db_ok THEN Put(table, job_id, job_data) ELSE table

FreshJobIds == JobIds \ (DOMAIN jobs \cup DOMAIN jobs_table)

InitJobs ==
    /\ jobs = << >>
    /\ jobs_table = << >>
    /\ threads = << >>
    /\ pc = "web"
    /\ ExtractionIdle
    /\ RefineIdle
    /\ DesignIdle
    /\ LoaderIdle
    /\ RoundTripIdle
    /\ RetryIdle
    /\ PipelineIdle
    /\ ObjectsIdle

job_frame == <<pc, extraction_vars, refine_vars, design_vars, loader_vars,
               roundtrip_vars, retry_vars, pipeline_vars, object_vars>>

ThreadAt(job_id, target, at) ==
    /\ job_id \in DOMAIN threads
    /\ threads[job_id] = Thread(target, at)

SetStatus(job_id, status, slides) ==
    jobs' = [jobs EXCEPT ![job_id] = Job(status, slides)]

process ==
    /\ pc = "web"
    /\ \E job_id \in FreshJobIds :
          /\ jobs' = Put(jobs, job_id, Job("extracting", "none"))
          /\ threads' = Put(threads, job_id, Thread("extract_for_editor", "running"))
    /\ UNCHANGED <<jobs_table, job_frame>>

extract_for_editor_extracted ==
    /\ pc = "web"
    /\ \E job_id \in DOMAIN threads :
          /\ ThreadAt(job_id, "extract_for_editor", "running")
          /\ SetStatus(job_id, "extracted", "extracted")
          /\ threads' = [threads EXCEPT ![job_id].at = "saving"]
    /\ UNCHANGED <<jobs_table, job_frame>>

extract_for_editor_error ==
    /\ pc = "web"
    /\ \E job_id \in DOMAIN threads :
          /\ ThreadAt(job_id, "extract_for_editor", "running")
          /\ SetStatus(job_id, "error", jobs[job_id].slides)
          /\ threads' = [threads EXCEPT ![job_id].at = "saving"]
    /\ UNCHANGED <<jobs_table, job_frame>>

extract_for_editor_save ==
    /\ pc = "web"
    /\ \E job_id \in DOMAIN threads, db_ok \in BOOLEAN :
          /\ ThreadAt(job_id, "extract_for_editor", "saving")
          /\ jobs_table' = save_job_to_db(jobs_table, job_id, jobs[job_id], db_ok)
          /\ threads' = [threads EXCEPT ![job_id].at = "finished"]
    /\ UNCHANGED <<jobs, job_frame>>

process_slides ==
    /\ pc = "web"
    /\ \E job_id \in FreshJobIds, db_ok \in BOOLEAN :
          /\ jobs' = Put(jobs, job_id, Job("processing", "edited"))
          /\ jobs_table' = save_job_to_db(jobs_table, job_id,
                                          Job("processing", "edited"), db_ok)
          /\ threads' = Put(threads, job_id,
                            Thread("process_slides_in_background", "running"))
    /\ UNCHANGED job_frame

process_slides_in_background ==
    /\ pc = "web"
    /\ \E job_id \in DOMAIN threads, status \in {"completed", "error"} :
          /\ ThreadAt(job_id, "process_slides_in_background", "running")
          /\ SetStatus(job_id, status, jobs[job_id].slides)
          /\ threads' = [threads EXCEPT ![job_id].at = "finished"]
    /\ UNCHANGED <<jobs_table, job_frame>>

process_slides_direct ==
    /\ pc = "web"
    /\ \E job_id \in FreshJobIds :
          /\ jobs' = Put(jobs, job_id, Job("processing", "none"))
          /\ threads' = Put(threads, job_id, Thread("process_in_background", "running"))
    /\ UNCHANGED <<jobs_table, job_frame>>

process_in_background ==
    /\ pc = "web"
    /\ \E job_id \in DOMAIN threads, status \in {"completed", "error"} :
          /\ ThreadAt(job_id, "process_in_background", "running")
          /\ SetStatus(job_id, status, jobs[job_id].slides)
          /\ threads' = [threads EXCEPT ![job_id].at = "finished"]
    /\ UNCHANGED <<jobs_table, job_frame>>

SaveSlides(job_id, job_data, db_ok) ==
    /\ jobs' = Put(jobs, job_id, job_data)
    /\ jobs_table' = save_job_to_db(jobs_table, job_id, job_data, db_ok)

api_save_slides ==
    /\ pc = "web"
    /\ \E job_id \in JobIds, db_ok \in BOOLEAN :
          IF job_id \in DOMAIN jobs
          THEN SaveSlides(job_id, Job(jobs[job_id].status, "edited"), db_ok)
          ELSE IF job_id \in DOMAIN jobs_table
          THEN UNCHANGED <<jobs, jobs_table>>
          ELSE SaveSlides(job_id, Job("editing", "edited"), db_ok)
    /\ UNCHANGED <<threads, job_frame>>

NextJobs ==
    \/ process
    \/ extract_for_editor_extracted
    \/ extract_for_editor_error
    \/ extract_for_editor_save
    \/ process_slides
    \/ process_slides_in_background
    \/ process_slides_direct
    \/ process_in_background
    \/ api_save_slides

SpecJobs == InitJobs /\ [][NextJobs]_vars

(***************************************************************************)
(* Vocabulary of the properties.                                           *)
(***************************************************************************)
Done == pc = "done"

IsListComponent(c) == "is_list" \in DOMAIN c

HasRole(comps, role) == \E k \in 1..Len(comps) : comps[k].role = role

AllBlank(t) == t = None \/ \A k \in 1..Len(t) : Ch(t, k) \in Whitespace

ExpectedNumbered(items) ==
    join_newline([k \in 1..Len(items) |-> IntStr(k) \o ". " \o items[k]])

ExpectedBullets(items) ==
    join_newline([k \in 1..Len(items) |-> "@ " \o items[k]])

MarkerStripped(list_lines, list_type) ==
    [k \in 1..Len(list_lines) |-> ItemsOfLine(list_lines[k], list_type)[1]]

IsNumberedBodyOf(c, list_lines) ==
    /\ c.role = "BODY"
    /\ IsListComponent(c)
    /\ c.content_type = "numbered_list"
    /\ c.items = MarkerStripped(list_lines, "numbered_list")
    /\ c.content = ExpectedNumbered(c.items)

IsBulletBodyOf(c, item_lines) ==
    /\ c.role = "BODY"
    /\ IsListComponent(c)
    /\ c.content_type = "bullet_list"
    /\ c.items = item_lines

(***************************************************************************)
(* C1.  Title gating: a TITLE is emitted, as the first component and with  *)
(* the first non-empty trimmed line as content, exactly when that line has *)
(* at most 6 words; with 7 or more words no component is a TITLE and the   *)
(* first line is the first line handed to the formatting loop.             *)
(***************************************************************************)
C1_TitleGating ==
    (Done /\ ~AllBlank(text)) =>
        IF Len(split_words(lines[1])) <= 6
        THEN /\ components # << >>
             /\ components[1].role = "TITLE"
             /\ components[1].content = lines[1]
             /\ ~HasRole(Tail(components), "TITLE")
        ELSE /\ ~HasRole(components, "TITLE")
             /\ remaining_lines # << >>
             /\ remaining_lines[1] = lines[1]

C1_Witness ==
    /\ Done
    /\ lines # << >>
    /\ Len(split_words(lines[1])) = 6
    /\ components[1].role = "TITLE"
    /\ Len(components) > 1

(***************************************************************************)
(* C2.  Subtitle gating: a SUBTITLE is emitted only on slide 0, after a    *)
(* TITLE, for a second line of fewer than 150 characters and at most 6     *)
(* words; no slide with slide_index > 0 has a SUBTITLE; the three-line     *)
(* quarterly report on slide 0 gives exactly TITLE, SUBTITLE, BODY.        *)
(***************************************************************************)
C2_SubtitleGating ==
    Done =>
        /\ HasRole(components, "SUBTITLE") =>
              /\ slide_index = 0
              /\ components[1].role = "TITLE"
              /\ Len(lines) > 1
              /\ Len(lines[2]) < 150
              /\ Len(split_words(lines[2])) <= 6
        /\ slide_index > 0 => ~HasRole(components, "SUBTITLE")
        /\ (text = "Quarterly Report\nQ4 2024\nRevenue grew." /\ slide_index = 0) =>
              /\ Len(components) = 3
              /\ components[1].role = "TITLE" /\ components[1].content = "Quarterly Report"
              /\ components[2].role = "SUBTITLE" /\ components[2].content = "Q4 2024"
              /\ components[3].role = "BODY" /\ components[3].content = "Revenue grew."

C2_Witness ==
    /\ Done
    /\ text = "Quarterly Report\nQ4 2024\nRevenue grew."
    /\ slide_index = 0
    /\ components[2].role = "SUBTITLE"

(***************************************************************************)
(* C3 as stated.  On a slide with slide_index >= 1 whose lines are all     *)
(* numbered list items the output is exactly one BODY numbered_list        *)
(* component holding every line's marker-stripped text, renumbered from 1. *)
(***************************************************************************)
AllNumbered == lines # << >> /\ \A k \in 1..Len(lines) : NUMBERED_PREFIX(lines[k])

C3_Original ==
    (Done /\ slide_index >= 1 /\ AllNumbered) =>
        /\ Len(components) = 1
        /\ IsNumberedBodyOf(components[1], lines)

(***************************************************************************)
(* C3 amended.  With no line ending in ':', the single numbered_list BODY  *)
(* holds all the lines only when the first line has at least 7 words; a    *)
(* first line of at most 6 words is emitted as TITLE and the list holds    *)
(* the lines after it (no list component when there is none).              *)
(***************************************************************************)
C3_Amended ==
    (/\ Done
     /\ slide_index >= 1
     /\ AllNumbered
     /\ \A k \in 1..Len(lines) : ~endswith_colon(lines[k])) =>
        IF Len(split_words(lines[1])) >= 7
        THEN /\ Len(components) = 1
             /\ IsNumberedBodyOf(components[1], lines)
        ELSE /\ components[1].role = "TITLE"
             /\ components[1].content = lines[1]
             /\ IF Len(lines) = 1
                THEN Len(components) = 1
                ELSE /\ Len(components) = 2
                     /\ IsNumberedBodyOf(components[2], Tail(lines))

C3_Witness ==
    /\ Done
    /\ slide_index = 1
    /\ text = "1. Plan\n2. Build\n3. Ship"
    /\ Len(components) = 2
    /\ components[1].role = "TITLE"
    /\ components[2].content = "1. Build\n2. Ship"

(***************************************************************************)
(* C4 as stated.  A first line ending with ':' followed only by lines that *)
(* neither end with ':' nor are list items gives HEADING(first line) and   *)
(* one BODY bullet_list whose items are the following lines in order.      *)
(***************************************************************************)
ColonThenPlain ==
    /\ Len(lines) >= 2
    /\ endswith_colon(lines[1])
    /\ \A k \in 2..Len(lines) : ~endswith_colon(lines[k]) /\ ~_is_list_item(lines[k])

HeadingThenBullets ==
    /\ Len(components) = 2
    /\ components[1].role = "HEADING"
    /\ components[1].content = lines[1]
    /\ IsBulletBodyOf(components[2], Tail(lines))

C4_Original == (Done /\ ColonThenPlain) => HeadingThenBullets

(***************************************************************************)
(* C4 amended.  HEADING and bullet_list result when the first line has at  *)
(* least 7 words; a first line of at most 6 words is emitted as TITLE and  *)
(* no following line becomes part of a list component.                     *)
(***************************************************************************)
C4_Amended ==
    (Done /\ ColonThenPlain) =>
        IF Len(split_words(lines[1])) >= 7
        THEN HeadingThenBullets
        ELSE /\ components[1].role = "TITLE"
             /\ components[1].content = lines[1]
             /\ \A k \in 1..Len(components) : ~IsListComponent(components[k])

C4_Witness ==
    /\ Done
    /\ text = "a b c d e f g:\nSales up\nKEY DATA\nChurn down"
    /\ Len(components) = 2
    /\ components[2].items = <<"Sales up", "KEY DATA", "Churn down">>

(***************************************************************************)
(* C5 as stated.  Lines with numeric markers that follow a colon-          *)
(* terminated heading line are rendered as a bullet_list with one          *)
(* "• item" line per marker line.                                          *)
(***************************************************************************)
NumberedAfterColon(m) ==
    LET c == fcomponents[m] IN
    /\ c.role = "HEADING"
    /\ endswith_colon(c.content)
    /\ c.line_index + 2 <= Len(remaining_lines)
    /\ NUMBERED_PREFIX(remaining_lines[c.line_index + 2])
    /\ ~endswith_colon(remaining_lines[c.line_index + 2])

C5_Original ==
    Done =>
        \A m \in 1..Len(fcomponents) :
            NumberedAfterColon(m) =>
                /\ m < Len(fcomponents)
                /\ IsListComponent(fcomponents[m + 1])
                /\ fcomponents[m + 1].content_type = "bullet_list"
                /\ fcomponents[m + 1].content = ExpectedBullets(fcomponents[m + 1].items)

(***************************************************************************)
(* C5 amended.  The colon branch collects none of the numeric-marker       *)
(* lines: they are emitted by the List Extractor as a numbered_list        *)
(* starting with the first marker line's text, rendered "1. ", "2. ", ...  *)
(* (for 'Goals:', '1. First', '2. Second' on a slide after the first:      *)
(* TITLE 'Goals:' and a numbered_list "1. First", "2. Second").            *)
(***************************************************************************)
C5_Amended ==
    Done =>
        /\ \A m \in 1..Len(fcomponents) :
              NumberedAfterColon(m) =>
                  /\ m < Len(fcomponents)
                  /\ IsListComponent(fcomponents[m + 1])
                  /\ fcomponents[m + 1].content_type = "numbered_list"
                  /\ fcomponents[m + 1].items[1] =
                        ItemsOfLine(remaining_lines[fcomponents[m].line_index + 2],
                                    "numbered_list")[1]
                  /\ fcomponents[m + 1].content = ExpectedNumbered(fcomponents[m + 1].items)
        /\ (text = "Goals:\n1. First\n2. Second" /\ slide_index >= 1) =>
              /\ Len(components) = 2
              /\ components[1].role = "TITLE" /\ components[1].content = "Goals:"
              /\ components[2].content_type = "numbered_list"
              /\ components[2].content = "1. First\n2. Second"

C5_Witness ==
    /\ Done
    /\ \E m \in 1..Len(fcomponents) :
          /\ NumberedAfterColon(m)
          /\ m < Len(fcomponents)
          /\ fcomponents[m + 1].content = "1. First"

(***************************************************************************)
(* C6.  Coverage in order: the source spans of the components (the content *)
(* of a TITLE, SUBTITLE or HEADING, the lines of a paragraph BODY, the     *)
(* items of a list), concatenated in emitted order, are the non-empty      *)
(* trimmed input lines in order, each line represented exactly once, by    *)
(* itself or by its marker-stripped text.                                  *)
(***************************************************************************)
SpansOf(c) ==
    IF IsListComponent(c) THEN c.items
    ELSE IF c.role = "BODY" THEN split_newline(c.content)
    ELSE <<c.content>>

RECURSIVE AllSpans(_)
AllSpans(comps) ==
    IF comps = << >> THEN << >> ELSE SpansOf(Head(comps)) \o AllSpans(Tail(comps))

Represents(line, span) ==
    \/ span = line
    \/ /\ _is_list_item(line)
       /\ \/ ItemsOfLine(line, "numbered_list") = <<span>>
          \/ ItemsOfLine(line, "bullet_list") = <<span>>

C6_Coverage ==
    Done =>
        LET spans == AllSpans(components) IN
        /\ Len(spans) = Len(lines)
        /\ \A k \in 1..Len(lines) : Represents(lines[k], spans[k])

(***************************************************************************)
(* C7.  Every list component returned by _extract_list has as many items   *)
(* as the call reports lines consumed.                                     *)
(***************************************************************************)
Extracted == pc \in {"extracted", "both"}

C7_ItemsEqualConsumed ==
    (Extracted /\ extract_call.out.result # NoComponent) =>
        Len(extract_call.out.result.items) = extract_call.out.consumed

(***************************************************************************)
(* C8.  Different thresholds: analyze_text_structure reports a list type   *)
(* only when the type's pattern matches at two line starts or more, so a   *)
(* text whose only non-empty line is a list item is 'plain', while         *)
(* _extract_list on that line returns a list of 1 item, 1 line consumed.   *)
(***************************************************************************)
MatchStarts(t, list_type) ==
    {p \in 1..Len(t) : AtLineStart(t, p) /\ MatchGroup(t, p, list_type).ok}

Analyzed == pc \in {"analyzed", "both"}

C8_Thresholds ==
    /\ (Analyzed /\ text # None) =>
          /\ analysis.content_type \in {"plain", "numbered_list", "bullet_list"}
          /\ analysis.content_type = "numbered_list" =>
                Cardinality(MatchStarts(text, "numbered_list")) >= 2
          /\ analysis.content_type = "bullet_list" =>
                Cardinality(MatchStarts(text, "bullet_list")) >= 2
    /\ (pc = "both" /\ Len(lines) = 1 /\ _is_list_item(lines[1])) =>
          /\ analysis.content_type = "plain"
          /\ extract_call.out.result # NoComponent
          /\ Len(extract_call.out.result.items) = 1
          /\ extract_call.out.consumed = 1

C8_Witness ==
    /\ pc = "both"
    /\ text = "1. Only item"
    /\ analysis.content_type = "plain"
    /\ extract_call.out.result.items = <<"Only item">>
    /\ extract_call.out.consumed = 1

(***************************************************************************)
(* C9.  Role positions: every component is TITLE, SUBTITLE, HEADING or     *)
(* BODY; a TITLE is only the first component and a SUBTITLE only the       *)
(* second, directly after a TITLE (so there is at most one of each).       *)
(***************************************************************************)
C9_RolePositions ==
    Done =>
        \A k \in 1..Len(components) :
            /\ components[k].role \in {"TITLE", "SUBTITLE", "HEADING", "BODY"}
            /\ components[k].role = "TITLE" => k = 1
            /\ components[k].role = "SUBTITLE" => (k = 2 /\ components[1].role = "TITLE")

C9_Witness ==
    /\ Done
    /\ Len(components) >= 3
    /\ components[1].role = "TITLE"
    /\ components[2].role = "SUBTITLE"
    /\ components[3].role = "HEADING"

(***************************************************************************)
(* C10.  The result is the empty sequence exactly when the text is missing *)
(* or has no non-whitespace character; every other text gives at least one *)
(* component.                                                              *)
(***************************************************************************)
C10_EmptyIffBlank == Done => ((components = << >>) <=> AllBlank(text))

C10_Witness ==
    /\ Done
    /\ text = " \n\t\n "
    /\ components = << >>

(***************************************************************************)
(* Lines of the formatting loop that are both list-item-like and           *)
(* heading-like, and what the loop made of the line at position k of       *)
(* remaining_lines (line_index k - 1).                                     *)
(***************************************************************************)
Ambiguous(line) == _is_list_item(line) /\ _is_heading(line)

EmittedAsHeading(k) ==
    \E j \in 1..Len(fcomponents) :
        /\ fcomponents[j].role = "HEADING"
        /\ fcomponents[j].line_index = k - 1

EmittedInList(k) ==
    \E j \in 1..Len(fcomponents) :
        /\ IsListComponent(fcomponents[j])
        /\ fcomponents[j].line_index <= k - 1
        /\ \E m \in 1..Len(fcomponents[j].items) :
               Represents(remaining_lines[k], fcomponents[j].items[m])

ConsumedByList(k) ==
    \E j \in 1..Len(fcomponents) :
        /\ IsListComponent(fcomponents[j])
        /\ fcomponents[j].content_type = ListType(remaining_lines[fcomponents[j].line_index + 1])
        /\ _is_list_item(remaining_lines[fcomponents[j].line_index + 1])
        /\ fcomponents[j].line_index <= k - 1
        /\ \A n \in (fcomponents[j].line_index + 1)..k : _is_list_item(remaining_lines[n])
        /\ j < Len(fcomponents) => fcomponents[j + 1].line_index > k - 1

(***************************************************************************)
(* C11 (as stated).  When the formatting loop has returned, every line     *)
(* that is both list-item-like and heading-like is an item of a list       *)
(* component and is not the line of any HEADING component.                 *)
(***************************************************************************)
C11_Original ==
    Done =>
        \A k \in 1..Len(remaining_lines) :
            Ambiguous(remaining_lines[k]) =>
                /\ ~EmittedAsHeading(k)
                /\ EmittedInList(k)

(***************************************************************************)
(* C11 (amended).  When the formatting loop has returned, every line that  *)
(* is both list-item-like and heading-like and does not end with ':' is    *)
(* not the line of any HEADING component and lies in the run of list-item  *)
(* lines consumed by a List Extractor call; an ambiguous line that ends    *)
(* with ':' and stands first or directly after a line that is not a list   *)
(* item is emitted as a HEADING.                                           *)
(***************************************************************************)
C11_Amended ==
    Done =>
        \A k \in 1..Len(remaining_lines) :
            Ambiguous(remaining_lines[k]) =>
                IF ~endswith_colon(remaining_lines[k])
                THEN /\ ~EmittedAsHeading(k)
                     /\ ConsumedByList(k)
                ELSE (k = 1 \/ ~_is_list_item(remaining_lines[k - 1]))
                        => EmittedAsHeading(k)

C11_Witness ==
    /\ Done
    /\ Len(remaining_lines) >= 2
    /\ remaining_lines[1] = "Key Metrics"
    /\ remaining_lines[2] = "- DONE"
    /\ Ambiguous(remaining_lines[2])
    /\ fcomponents[1].role = "HEADING"
    /\ IsListComponent(fcomponents[2])
    /\ fcomponents[2].items[1] = "DONE"

(***************************************************************************)
(* Vocabulary of role refinement: the element that entered at sorted       *)
(* position k, its incoming role, and the analysis stored with the result. *)
(***************************************************************************)
Refined == pc \in {"enhanced", "reenhanced"}

Incoming(k) == sorted_elements(elements)[k]

IsAssigned(role) == role \in {"TITLE", "SUBTITLE"}

HasListContent(e) == e.text_analysis.content_type \in {"numbered_list", "bullet_list"}

TrimmedLength(e) == Len(strip(e.content))

CountRole(elems, role) == Cardinality({k \in 1..Len(elems) : elems[k].role = role})

(***************************************************************************)
(* C12.  After refinement, an element that came in as TITLE or SUBTITLE    *)
(* has role HEADING when its analyzed content_type is numbered_list or     *)
(* bullet_list, and its incoming role otherwise, at every position and for *)
(* every length and emphasis.                                              *)
(***************************************************************************)
C12_AssignedKept ==
    Refined =>
        /\ Len(enhanced_elements) = Len(elements)
        /\ \A k \in 1..Len(enhanced_elements) :
              IsAssigned(Incoming(k).role) =>
                  /\ enhanced_elements[k].content = Incoming(k).content
                  /\ enhanced_elements[k].role =
                        (IF HasListContent(enhanced_elements[k])
                         THEN "HEADING"
                         ELSE Incoming(k).role)

C12_Witness ==
    /\ pc = "enhanced"
    /\ Len(enhanced_elements) = 3
    /\ Incoming(1).role = "SUBTITLE"
    /\ enhanced_elements[1].role = "SUBTITLE"
    /\ enhanced_elements[1].content = "sales grew"
    /\ Incoming(2).role = "SUBTITLE"
    /\ HasListContent(enhanced_elements[2])
    /\ enhanced_elements[2].role = "HEADING"
    /\ Incoming(3).role = "TITLE"
    /\ enhanced_elements[3].role = "TITLE"

(***************************************************************************)
(* C13 (as stated).  detect_slide_sections applied to its own output       *)
(* gives every element the role the first application gave it.             *)
(***************************************************************************)
C13_Original ==
    pc = "reenhanced" =>
        /\ Len(reenhanced_elements) = Len(enhanced_elements)
        /\ \A k \in 1..Len(enhanced_elements) :
              reenhanced_elements[k].role = enhanced_elements[k].role

(***************************************************************************)
(* C13 (amended).  The second application keeps the order of the elements  *)
(* and the role of every element whose content is not a list; an element   *)
(* with list content that left the first application as TITLE or SUBTITLE  *)
(* leaves the second one as HEADING.                                       *)
(***************************************************************************)
C13_Amended ==
    pc = "reenhanced" =>
        /\ Len(reenhanced_elements) = Len(enhanced_elements)
        /\ \A k \in 1..Len(enhanced_elements) :
              /\ reenhanced_elements[k].content = enhanced_elements[k].content
              /\ ~HasListContent(enhanced_elements[k]) =>
                    reenhanced_elements[k].role = enhanced_elements[k].role
              /\ (HasListContent(enhanced_elements[k])
                    /\ IsAssigned(enhanced_elements[k].role)) =>
                    reenhanced_elements[k].role = "HEADING"

C13_Witness ==
    /\ pc = "reenhanced"
    /\ Len(elements) = 3
    /\ \A k \in 1..3 : elements[k].role = "BODY"
    /\ enhanced_elements[1].role = "TITLE"
    /\ ~HasListContent(enhanced_elements[1])
    /\ reenhanced_elements[1].role = "TITLE"
    /\ enhanced_elements[2].role = "SUBTITLE"
    /\ HasListContent(enhanced_elements[2])
    /\ reenhanced_elements[2].role = "HEADING"
    /\ enhanced_elements[3].role = "BODY"
    /\ reenhanced_elements[3].role = "BODY"

(***************************************************************************)
(* C14 (as stated).  After refinement, every element that came in with a   *)
(* role other than TITLE and SUBTITLE and has list content has role BODY.  *)
(***************************************************************************)
C14_Original ==
    Refined =>
        \A k \in 1..Len(enhanced_elements) :
            (~IsAssigned(Incoming(k).role) /\ HasListContent(enhanced_elements[k]))
                => enhanced_elements[k].role = "BODY"

(***************************************************************************)
(* C14 (amended).  After refinement, an element that came in with a role   *)
(* other than TITLE and SUBTITLE and has list content is TITLE when it is  *)
(* the first element, shorter than 100 and emphasized or title-cased;      *)
(* else SUBTITLE when it is the second element and shorter than 150; else  *)
(* HEADING when it is shorter than 100 and emphasized; else BODY, and so   *)
(* never FOOTER.                                                           *)
(***************************************************************************)
C14_Amended ==
    Refined =>
        \A k \in 1..Len(enhanced_elements) :
            (~IsAssigned(Incoming(k).role) /\ HasListContent(enhanced_elements[k])) =>
                LET e == enhanced_elements[k] IN
                e.role =
                    (IF /\ k = 1
                        /\ TrimmedLength(e) < 100
                        /\ (e.text_analysis.has_emphasis \/ e.text_analysis.is_title_case)
                     THEN "TITLE"
                     ELSE IF k = 2 /\ TrimmedLength(e) < 150 THEN "SUBTITLE"
                     ELSE IF TrimmedLength(e) < 100 /\ e.text_analysis.has_emphasis
                     THEN "HEADING"
                     ELSE "BODY")

C14_Witness ==
    /\ pc = "enhanced"
    /\ Len(enhanced_elements) = 3
    /\ \A k \in 1..3 :
          ~IsAssigned(Incoming(k).role) /\ HasListContent(enhanced_elements[k])
    /\ enhanced_elements[1].role = "BODY"
    /\ enhanced_elements[2].role = "SUBTITLE"
    /\ enhanced_elements[3].role = "BODY"
    /\ TrimmedLength(enhanced_elements[3]) < 50

(***************************************************************************)
(* C15.  When the elements passed to detect_slide_sections hold at most    *)
(* one TITLE and at most one SUBTITLE, so do the returned elements.        *)
(***************************************************************************)
C15_Uniqueness ==
    Refined =>
        ((CountRole(elements, "TITLE") <= 1 /\ CountRole(elements, "SUBTITLE") <= 1)
            => (/\ CountRole(enhanced_elements, "TITLE") <= 1
                /\ CountRole(enhanced_elements, "SUBTITLE") <= 1))

(***************************************************************************)
(* Vocabulary of the design stage: the layout the template holds for the   *)
(* slide's layout type, the typography it holds for the element's role.    *)
(***************************************************************************)
Placed == pc \in {"placed", "both"}

Styled == pc \in {"styled", "both"}

DesignRoles == {"TITLE", "SUBTITLE", "HEADING", "BODY", "FOOTER"}

TemplateLayout ==
    LET layouts == IF "layouts" \in DOMAIN applicator_template
                   THEN applicator_template.layouts ELSE << >>
        key == IF layout_type = "TITLE" THEN "title_slide" ELSE "content_slide"
    IN IF key \in DOMAIN layouts THEN layouts[key] ELSE << >>

RolePositionKey(e) ==
    lower(IF "role" \in DOMAIN e THEN e.role ELSE "body") \o "_position"

TemplateFontSize ==
    LET typography == applicator_template.typography
        role == lower(input_element.role)
    IN IF role \in DOMAIN typography THEN typography[role].font_size
       ELSE typography.body.font_size

Larger(a, b) == IF a > b THEN a ELSE b

(***************************************************************************)
(* C16.  After apply_layout the element's styled_position is taken from    *)
(* the template layout 'title_slide' when slide_layout is 'TITLE' and from *)
(* 'content_slide' for every other layout type: it is that layout's entry  *)
(* '<lower-cased role>_position' when the layout has this key, and its     *)
(* 'body_position' entry when it has not (and has 'body_position').        *)
(***************************************************************************)
C16_LayoutSelection ==
    Placed =>
        /\ RolePositionKey(placed) \in DOMAIN TemplateLayout
              => placed.styled_position = TemplateLayout[RolePositionKey(placed)]
        /\ (/\ RolePositionKey(placed) \notin DOMAIN TemplateLayout
            /\ "body_position" \in DOMAIN TemplateLayout)
              => placed.styled_position = TemplateLayout.body_position

C16_Witness ==
    /\ pc = "placed"
    /\ layout_type = "SECTION"
    /\ "role" \in DOMAIN placed
    /\ placed.role = "SUBTITLE"
    /\ "layouts" \in DOMAIN applicator_template
    /\ applicator_template.layouts = FullLayouts
    /\ placed.styled_position = Rect(2, 3)

(***************************************************************************)
(* C17.  When the selected layout of a valid template has neither the      *)
(* role's position key nor 'body_position', the element styled by the      *)
(* applicator has styled_position equal to the position of the input       *)
(* element.                                                                *)
(***************************************************************************)
C17_PreexistingPosition ==
    (/\ Styled
     /\ validate_template(applicator_template) = NoException
     /\ ~IsRaised(styled)
     /\ RolePositionKey(input_element) \notin DOMAIN TemplateLayout
     /\ "body_position" \notin DOMAIN TemplateLayout)
        => styled.styled_position =
              (IF "position" \in DOMAIN input_element THEN input_element.position ELSE << >>)

(***************************************************************************)
(* C18.  With a template that validate_template accepts and an element     *)
(* that has content and a role among TITLE, SUBTITLE, HEADING, BODY and    *)
(* FOOTER, _apply_to_element returns a styled element and does not raise.  *)
(***************************************************************************)
C18_NeverRaises ==
    (/\ Styled
     /\ validate_template(applicator_template) = NoException
     /\ "content" \in DOMAIN input_element
     /\ "role" \in DOMAIN input_element
     /\ input_element.role \in DesignRoles)
        => ~IsRaised(styled)

HasRequired(t) ==
    /\ {"metadata", "typography", "colors", "layouts"} \subseteq DOMAIN t
    /\ {"title", "heading", "body"} \subseteq DOMAIN t.typography
    /\ {"primary", "secondary", "background", "text"} \subseteq DOMAIN t.colors

Unloadable(template_name) ==
    \/ files[template_name].kind = "missing"
    \/ files[template_name].kind = "text"
    \/ /\ files[template_name].kind = "json"
       /\ ~HasRequired(files[template_name].value)

Loaded == pc = "loader" /\ load_call # NoLoad

(***************************************************************************)
(* C20.  Every template in templates_cache and every template returned by  *)
(* load_template has the required sections, typography roles and colors;   *)
(* a load of a name whose file is missing, is not JSON or fails validation *)
(* raises TemplateError and leaves templates_cache as it found it.         *)
(***************************************************************************)
C20_ValidatedCache ==
    pc = "loader" =>
        /\ \A n \in DOMAIN templates_cache : HasRequired(templates_cache[n])
        /\ Loaded =>
              /\ \A n \in DOMAIN load_call.cache_after :
                    HasRequired(load_call.cache_after[n])
              /\ ~IsRaised(load_call.out) => HasRequired(load_call.out)
              /\ Unloadable(load_call.template_name) =>
                    /\ IsRaised(load_call.out)
                    /\ load_call.out.raised = "TemplateError"
                    /\ load_call.cache_after = load_call.cache_before

C20_Witness ==
    /\ Loaded
    /\ DOMAIN templates_cache = {"default"}
    /\ load_call.template_name = "corporate_blue"
    /\ ~load_call.use_cache
    /\ files["corporate_blue"].kind = "json"
    /\ IsRaised(load_call.out)
    /\ load_call.cache_before = templates_cache
    /\ load_call.cache_after = templates_cache

(***************************************************************************)
(* C21.  The formatting loop terminates: every iteration moves the cursor  *)
(* forward by at least one line and never past the number of lines, so a   *)
(* call makes at most as many iterations as it has lines; the cursor never *)
(* exceeds the number of lines, and the call returns with the cursor equal *)
(* to the number of lines.                                                 *)
(***************************************************************************)
LoopIteration == pc = "format" /\ pc' = "format" /\ fcomponents' # fcomponents

C21_Termination ==
    /\ [][LoopIteration => (fi' >= fi + 1 /\ fi' <= Len(remaining_lines))]_vars
    /\ [](fi <= Len(remaining_lines))
    /\ [](Done => fi = Len(remaining_lines))

C21_Witness ==
    /\ Done
    /\ Len(remaining_lines) >= 5
    /\ fi = Len(remaining_lines)
    /\ \E a, b, c \in 1..Len(fcomponents) :
          /\ "make_bold" \in DOMAIN fcomponents[a]
          /\ IsListComponent(fcomponents[b]) /\ Len(fcomponents[b].items) >= 2
          /\ fcomponents[c].role = "BODY" /\ ~IsListComponent(fcomponents[c])

(***************************************************************************)
(* C22.  Canonical list formatting round-trips: the rendering of a         *)
(* non-empty sequence of non-empty single-line items without outer         *)
(* whitespace is parsed back by the List Extractor into a list of the same *)
(* type with the same items (one per rendered line), and rendering those   *)
(* again gives the same text.                                              *)
(***************************************************************************)
C22_RoundTrip ==
    /\ pc \in {"parsed", "rerendered"} =>
          /\ parsed.result # NoComponent
          /\ parsed.result.content_type = source_type
          /\ parsed.result.items = source_items
          /\ parsed.consumed = Len(source_items)
    /\ pc = "rerendered" => rerendered = rendered

C22_Witness ==
    /\ pc = "rerendered"
    /\ source_type = "bullet_list"
    /\ source_items = <<"1. x", "- y", "3) z:">>
    /\ rendered.content = "@ 1. x\n@ - y\n@ 3) z:"
    /\ parsed.result.items = source_items
    /\ rerendered = rendered

(***************************************************************************)
(* C23.  A function wrapped with exponential_backoff(N, d, b) is called at *)
(* most N+1 times; the value of the first call that raises no listed       *)
(* exception is returned (all calls before it raised a listed exception    *)
(* and each was followed by one wait); the k-th wait lasts d*b^(k-1); and  *)
(* when all N+1 calls raise a listed exception RetryError is raised after  *)
(* exactly N waits.                                                        *)
(***************************************************************************)
RECURSIVE Power(_, _)
Power(b, k) == IF k = 0 THEN 1 ELSE b * Power(b, k - 1)

RaisedListed(call) == IsRaised(call) /\ call.raised \in ListedExceptions

AllRaisedListed(calls) == \A k \in 1..Len(calls) : RaisedListed(calls[k])

C23_Backoff ==
    pc \in {"retry", "returned", "raised"} =>
        /\ Len(call_log) <= max_retries + 1
        /\ Len(sleeps) <= max_retries
        /\ \A k \in 1..Len(sleeps) : sleeps[k] = initial_delay * Power(backoff_factor, k - 1)
        /\ pc = "returned" =>
              /\ outcome = call_log[Len(call_log)]
              /\ outcome.returned \in ReturnValues
              /\ AllRaisedListed(SubSeq(call_log, 1, Len(call_log) - 1))
              /\ Len(sleeps) = Len(call_log) - 1
        /\ (Len(call_log) = max_retries + 1 /\ AllRaisedListed(call_log)) =>
              /\ pc = "raised"
              /\ outcome = Raised("RetryError", "Max retries exceeded")
              /\ Len(sleeps) = max_retries
        /\ (pc = "raised" /\ outcome.raised = "RetryError") =>
              (Len(call_log) = max_retries + 1 /\ AllRaisedListed(call_log))

C23_Witness ==
    /\ pc = "raised"
    /\ max_retries = 3 /\ initial_delay = 1 /\ backoff_factor = 2
    /\ Len(call_log) = 4
    /\ sleeps = <<1, 2, 4>>
    /\ outcome.raised = "RetryError"

(***************************************************************************)
(* C24.  When the formatting loop reaches a line ending with ':' followed  *)
(* by k lines that neither end with ':' nor are list items (up to the next *)
(* such line or the end), the iteration emits a HEADING with make_bold for *)
(* the colon line and, when k >= 1, one BODY bullet_list component with    *)
(* is_list, the k lines as items and "• item" lines as content; when k = 0 *)
(* it emits only the HEADING.                                              *)
(***************************************************************************)
PlainFollower(line) == ~endswith_colon(line) /\ ~_is_list_item(line)

FollowerCount(ls, from) ==
    Cardinality({n \in 1..(Len(ls) - from) :
                    \A j \in (from + 1)..(from + n) : PlainFollower(ls[j])})

AtColonLine == InLoop /\ endswith_colon(remaining_lines[fi + 1])

C24_ColonBranch ==
    [][AtColonLine =>
          LET k == FollowerCount(remaining_lines, fi + 1)
              emitted == SubSeq(fcomponents', Len(fcomponents) + 1, Len(fcomponents'))
          IN /\ SubSeq(fcomponents', 1, Len(fcomponents)) = fcomponents
             /\ Len(emitted) = (IF k = 0 THEN 1 ELSE 2)
             /\ emitted[1].role = "HEADING"
             /\ emitted[1].content = remaining_lines[fi + 1]
             /\ emitted[1].make_bold = TRUE
             /\ k >= 1 =>
                   /\ emitted[2].role = "BODY"
                   /\ emitted[2].content_type = "bullet_list"
                   /\ emitted[2].is_list = TRUE
                   /\ emitted[2].items = SubSeq(remaining_lines, fi + 2, fi + 1 + k)
                   /\ emitted[2].content = ExpectedBullets(emitted[2].items)
             /\ fi' = fi + 1 + k]_vars

C24_Witness ==
    /\ pc = "format"
    /\ \E m \in 1..(Len(fcomponents) - 1) :
          /\ fcomponents[m].role = "HEADING"
          /\ fcomponents[m].content = "a b c d e f g:"
          /\ "make_bold" \in DOMAIN fcomponents[m]
          /\ IsListComponent(fcomponents[m + 1])
          /\ fcomponents[m + 1].items = <<"a b c d e f", "Key Metrics">>
          /\ fcomponents[m + 1].content = "@ a b c d e f\n@ Key Metrics"

(***************************************************************************)
(* Lists made by the colon branch: a list component directly after a bold  *)
(* HEADING whose first source line carries no list marker; and the lines   *)
(* (positions of remaining_lines) such a list took as items.               *)
(***************************************************************************)
ColonListAt(m) ==
    /\ m > 1
    /\ "make_bold" \in DOMAIN fcomponents[m - 1]
    /\ IsListComponent(fcomponents[m])
    /\ ~_is_list_item(remaining_lines[fcomponents[m].line_index + 1])

ConsumedByColonList(p) ==
    \E m \in 1..Len(fcomponents) :
        /\ ColonListAt(m)
        /\ fcomponents[m].line_index < p
        /\ p <= fcomponents[m].line_index + Len(fcomponents[m].items)

BoldHeadingAt(p) ==
    \E m \in 1..Len(fcomponents) :
        /\ "make_bold" \in DOMAIN fcomponents[m]
        /\ fcomponents[m].line_index = p - 1

(***************************************************************************)
(* C25 as stated.  The colon branch stops collecting before the first      *)
(* heading-like line, so no item of a list made by the colon branch is a   *)
(* line for which _is_heading is true.                                     *)
(***************************************************************************)
C25_Original ==
    Done =>
        \A m \in 1..Len(fcomponents) :
            ColonListAt(m) =>
                \A k \in 1..Len(fcomponents[m].items) : ~_is_heading(fcomponents[m].items[k])

(***************************************************************************)
(* C25 amended.  The colon branch stops collecting only before a line that *)
(* ends with ':' or is a list item: a line that is neither, heading-like   *)
(* or not, directly after the colon line or after a collected line is      *)
(* itself collected as an item and is not emitted as a HEADING; no         *)
(* collected line ends with ':' or is a list item.                         *)
(***************************************************************************)
C25_Amended ==
    Done =>
        /\ \A p \in 2..Len(remaining_lines) :
              (/\ PlainFollower(remaining_lines[p])
               /\ (BoldHeadingAt(p - 1) \/ ConsumedByColonList(p - 1))) =>
                  (ConsumedByColonList(p) /\ ~EmittedAsHeading(p))
        /\ \A p \in 1..Len(remaining_lines) :
              ConsumedByColonList(p) => PlainFollower(remaining_lines[p])

C25_Witness ==
    /\ Done
    /\ \E p \in 2..Len(remaining_lines) :
          /\ remaining_lines[p] = "KEY DATA"
          /\ _is_heading(remaining_lines[p])
          /\ ConsumedByColonList(p)
          /\ ~EmittedAsHeading(p)

(***************************************************************************)
(* C26.  For every component returned by split_slide_text, line_index is   *)
(* the offset of the component's first source line in the slide's          *)
(* non-empty lines (that line is the component's first span, as written or *)
(* marker-stripped), and line_index increases strictly along the           *)
(* components.                                                             *)
(***************************************************************************)
C26_LineIndex ==
    Done =>
        \A k \in 1..Len(components) :
            /\ components[k].line_index < Len(lines)
            /\ SpansOf(components[k]) # << >> =>
                  Represents(lines[components[k].line_index + 1], SpansOf(components[k])[1])
            /\ k > 1 => components[k - 1].line_index < components[k].line_index

(***************************************************************************)
(* C27.  The two canonical list renderers agree: for every list component  *)
(* of the Text Splitter (from the List Extractor or from the colon branch) *)
(* carried through parse_slide, the content the Design Applicator renders  *)
(* from the component's items and content_type is the component's own      *)
(* content.                                                                *)
(***************************************************************************)
Designed == pc = "designed" /\ ~IsRaised(designed_slide)

C27_RenderersAgree ==
    Designed =>
        /\ Len(designed_slide.elements) = Len(components)
        /\ \A k \in 1..Len(components) :
              IsListComponent(components[k]) =>
                  /\ parsed_slide.elements[k].text_analysis.items = components[k].items
                  /\ parsed_slide.elements[k].text_analysis.content_type
                        = components[k].content_type
                  /\ IsListComponent(designed_slide.elements[k])
                  /\ designed_slide.elements[k].content = components[k].content

C27_Witness ==
    /\ Designed
    /\ text = "Key tasks\n    \nMain project goals:\n1. Build prototype\n2. Run tests\n3. Roll out\n\nNext steps are set by the team."
    /\ Len(components) = 4
    /\ components[3].content_type = "numbered_list"
    /\ designed_slide.elements[3].content = "1. Build prototype\n2. Run tests\n3. Roll out"
    /\ designed_slide.elements[3].content = components[3].content

(***************************************************************************)
(* C28.  Every component the Text Splitter emitted as a non-list component *)
(* (TITLE, SUBTITLE, HEADING, paragraph BODY) gets a text_analysis with    *)
(* content_type 'plain' in parse_slide, and the Design Applicator outputs  *)
(* its trimmed content unchanged, not re-rendered as a list.               *)
(***************************************************************************)
C28_PlainPassThrough ==
    Designed =>
        \A k \in 1..Len(components) :
            ~IsListComponent(components[k]) =>
                /\ parsed_slide.elements[k].text_analysis.content_type = "plain"
                /\ ~IsListComponent(designed_slide.elements[k])
                /\ designed_slide.elements[k].content = strip(components[k].content)

(***************************************************************************)
(* C29.  Role refinement is a pure transform: detect_slide_sections        *)
(* returns a new list of new element records (the refined elements in      *)
(* sorted order), and the input list keeps its order and every input       *)
(* element its role and other fields; text_analysis and the refined role   *)
(* are written to the copies only.                                         *)
(***************************************************************************)
SectionsReturned == pc = "sections"

InputRefs == 1..Len(objects_before.dicts)

C29_PureTransform ==
    SectionsReturned =>
        /\ returned_ref # elements_ref
        /\ returned_ref \notin 1..Len(objects_before.lists)
        /\ \A k \in 1..Len(list_objects[returned_ref]) :
              list_objects[returned_ref][k] \notin InputRefs
        /\ list_objects[elements_ref] = objects_before.lists[elements_ref]
        /\ \A ref \in InputRefs : dict_objects[ref] = objects_before.dicts[ref]
        /\ [k \in 1..Len(list_objects[returned_ref]) |->
               dict_objects[list_objects[returned_ref][k]]]
              = detect_slide_sections(objects_before.dicts)

C29_Witness ==
    /\ SectionsReturned
    /\ Len(objects_before.dicts) = 2
    /\ objects_before.dicts[1] = Element("Quarterly Report", "BODY", 1)
    /\ objects_before.dicts[2] = Element("URGENT UPDATE", "BODY", 0)
    /\ list_objects[returned_ref] = <<3, 4>>
    /\ dict_objects[3].content = "URGENT UPDATE"
    /\ dict_objects[3].role = "TITLE"
    /\ "text_analysis" \in DOMAIN dict_objects[4]
    /\ dict_objects[1] = Element("Quarterly Report", "BODY", 1)

(***************************************************************************)
(* C30.  When a background thread of the web application has finished and  *)
(* the status of its job in memory is 'extracted', 'completed' or 'error', *)
(* the row of the job in the jobs table holds that status: no finished job *)
(* is stored with status 'processing' or 'extracting', or not stored.      *)
(***************************************************************************)
TerminalStatuses == {"extracted", "completed", "error"}

ThreadFinished(job_id) == job_id \in DOMAIN threads /\ threads[job_id].at = "finished"

StoredStatus(job_id) ==
    IF job_id \in DOMAIN jobs_table THEN jobs_table[job_id].status ELSE None

C30_TerminalStatusStored ==
    \A job_id \in DOMAIN jobs :
        (ThreadFinished(job_id) /\ jobs[job_id].status \in TerminalStatuses)
            => StoredStatus(job_id) = jobs[job_id].status

====
